---------------------------- MODULE Spec2Model ----------------------------
(***************************************************************************)
(* Model of the asynchronous event reactor of pynebula                     *)
(* (nebula/asyncevent/_asyncevent.py, nebula/asyncevent/_base_dispatcher.py).*)
(*                                                                         *)
(* Event masks are modelled as sets of native bits: a | b is the union,    *)
(* a & b the intersection, and a mask is true when it is not empty.        *)
(* Instants are integers; the answer 0 of a timeout() or schedule() query  *)
(* stands for "None or 0", which the code treats alike (if timeout:).      *)
(***************************************************************************)
EXTENDS Integers, Sequences, FiniteSets, TLC

\* ------------------------------------------------------------------ bounds
NumFds == 2
NumJobs == 1
MaxTime == 1
MaxJobEntries == 1

\* ------------------------------------------------------- program constants
API_EPOLL == 1
API_POLL == 2
API_SELECT == 3

EPOLLIN == 1
EPOLLPRI == 2
EPOLLOUT == 4
EPOLLERR == 8
EPOLLHUP == 16

SELECT_IN == 1
SELECT_OUT == 2
SELECT_ERR == 4

\* ---------------------------------------------------------------- universe
Fds == 1..NumFds
\* Dispatcher objects: one per descriptor, and one more that shares the
\* descriptor number of the first (a wrapper of the same descriptor, or of a
\* descriptor number the system handed out again after a close).
Objs == 1..(NumFds + 1)
Jobs == 1..NumJobs
TimeoutAnswers == 0..MaxTime
\* the answers <<readable(), writable()>> of the dispatchers: they want both
\* directions or none
Interests == {<<TRUE, TRUE>>, <<FALSE, FALSE>>}

fileno(o) == IF o = NumFds + 1 THEN 1 ELSE o

VARIABLES
    registered_dispatchers, \* dict fd -> dispatcher object
    monitored_events,       \* dict fd -> mask
    fds_with_timeout,       \* list of <<instant, fd>>
    time_events,            \* list of <<instant, job>>
    pollster,               \* the multiplexer's watch set: dict fd -> mask
    raise_exceptions,       \* construction-time policy flag
    stop_flag,
    event_api,
    now,                    \* the clock
    closed,                 \* the dispatchers whose close() the latest action called
    last_timeout,           \* fd -> answer of the reactor's latest timeout query
    pc,                     \* position of the thread
    result,                 \* the pairs of poll's batch the for loop has not reached
    idx,                    \* iterations made over the list of timeouts or jobs
    stage,                  \* next event class to resolve for the current pair
    flags,                  \* the loop variable flags of __loop_step
    fd_var,                 \* the loop variable fd of __loop_step
    disp_obj,               \* the dispatcher (or job) whose callback is invoked
    cb,                     \* the callback being executed
    fired,                  \* callbacks invoked for the current pair, in order
    exc,                    \* the exception in flight ("none": none)
    due,                    \* <<fds, jobs>> whose instant had elapsed when the
                            \* pure-timeout branch of the step read the clock
    served,                 \* the timeout and job callbacks the step has invoked
    sched,                  \* job -> <<instants schedule() answered, firings>>
    modify_calls,           \* the calls <<fd, mask>> of the multiplexer's modify()
                            \* that the latest action made
    ret,                    \* <<call, argument, outcome>> of the main program's latest call
    loop_exc,               \* the exception that left loop() ("none": none has)
    kind,                   \* dispatcher -> its class: "plain", "client", "server"
    connected,              \* the TCP client's __connected
    connect_timeout_at,     \* the TCP client's __connect_timeout_at (0: None)
    accepting,              \* the TCP server's _accepting
    prepared,               \* calls of the TCP server's prepare_serving_client()
    peer_addr,              \* the TCP client's __peer_addr ("None" or "addr")
    log_mask,               \* the Logger's __log_mask
    min,                    \* the Histogram's __min
    max,                    \* the Histogram's __max
    total,                  \* the Histogram's __total
    counter,                \* the Histogram's __counter
    bound_list,             \* the Histogram's __bound_list
    count_list,             \* the Histogram's __count_list
    added                   \* the values given to Histogram.add(), in order

vars == <<registered_dispatchers, monitored_events, fds_with_timeout,
          time_events, pollster, raise_exceptions, stop_flag, event_api, now,
          closed, last_timeout, pc, result, idx, stage, flags, fd_var, disp_obj,
          cb, fired, exc, due, served, sched, modify_calls, ret, loop_exc,
          kind, connected, connect_timeout_at, accepting, prepared,
          peer_addr, log_mask, min, max, total, counter, bound_list,
          count_list, added>>

reactor == <<registered_dispatchers, monitored_events, fds_with_timeout,
             pollster, last_timeout>>
config == <<raise_exceptions, event_api, kind>>
position == <<result, idx, stage, flags, fd_var, disp_obj, exc>>
\* what the specification of the timers observes of a step
timers_view == <<due, served, sched>>
\* the fields of the socket dispatchers
sockets == <<connected, connect_timeout_at, accepting, prepared, peer_addr>>
\* the fields of the Logger and of the Histogram
library == <<log_mask, min, max, total, counter, bound_list, count_list,
             added>>

\* the fields of the Histogram, with the values it was given
histogram == <<min, max, total, counter, bound_list, count_list, added>>
\* the reactor, its thread and the socket dispatchers, without ret
machine == <<reactor, time_events, config, stop_flag, now, closed, pc,
             position, cb, fired, timers_view, modify_calls, loop_exc,
             sockets>>

\* Python's None where 0 is a value of its own
None == 0 - 1

\* no Logger and no Histogram has been constructed
NoLibrary ==
    /\ log_mask = None
    /\ min = None
    /\ max = None
    /\ total = 0
    /\ counter = 0
    /\ bound_list = <<>>
    /\ count_list = <<>>
    /\ added = <<>>

\* ----------------------------------------------------------------- helpers
Put(d, k, v) == [x \in (DOMAIN d) \cup {k} |-> IF x = k THEN v ELSE d[x]]
Del(d, k) == [x \in (DOMAIN d) \ {k} |-> d[x]]
EmptyDict == [x \in {} |-> 0]

RECURSIVE DelAt(_, _)
DelAt(s, i) ==
    IF s = <<>> THEN <<>>
    ELSE IF i = 1 THEN Tail(s)
    ELSE <<Head(s)>> \o DelAt(Tail(s), i - 1)

\* sorted(list, key = item[0]): a stable insertion sort on the instant
RECURSIVE InsertSorted(_, _)
InsertSorted(s, e) ==
    IF s = <<>> THEN <<e>>
    ELSE IF e[1] < Head(s)[1] THEN <<e>> \o s
    ELSE <<Head(s)>> \o InsertSorted(Tail(s), e)

RECURSIVE sorted(_)
sorted(s) ==
    IF s = <<>> THEN <<>>
    ELSE InsertSorted(sorted(SubSeq(s, 1, Len(s) - 1)), s[Len(s)])

event_in_mask == IF event_api = API_SELECT THEN {SELECT_IN} ELSE {EPOLLIN}
event_pri_mask == IF event_api = API_SELECT THEN {SELECT_IN} ELSE {EPOLLPRI}
event_out_mask == IF event_api = API_SELECT THEN {SELECT_OUT} ELSE {EPOLLOUT}
event_hup_mask == IF event_api = API_SELECT THEN {SELECT_ERR} ELSE {EPOLLHUP}
event_err_mask == IF event_api = API_SELECT THEN {SELECT_ERR} ELSE {EPOLLERR}

\* the mask register() and __update_associated_events() derive from the
\* answers of monitor_readable() and monitor_writable()
derive_flags(r, w) ==
    (IF r
     THEN event_in_mask \cup
          (IF event_in_mask # event_pri_mask THEN event_pri_mask ELSE {})
     ELSE {})
    \cup (IF w THEN event_out_mask ELSE {})

NoCb == "none"
NoCall == <<"none", 0, "none">>

\* ------------------------------------------------- the multiplexer (select)
pollster_register(p, fd, eventmask) == Put(p, fd, eventmask)
\* an unregister() of the multiplexer that forgets nothing
pollster_unregister_none(p, fd) == p
pollster_unregister(p, fd) == Del(p, fd)
\* a modify() of the multiplexer that changes nothing
pollster_modify_none(p, fd, eventmask) == p
pollster_modify(p, fd, eventmask) == Put(p, fd, eventmask)

\* ------------------------------------------------------ reactor operations
\* a loop over the timers that stops at no entry
not_elapsed_never(timeout, t) == FALSE

\* "if timeout > now: break" of the loops over the timeouts and the jobs
not_elapsed(timeout, t) == timeout > t

\* first index of an entry of fd in the timeout list, 0 when there is none
FirstTimeoutIndex(s, fd) ==
    IF \E i \in 1..Len(s) : s[i][2] = fd
    THEN CHOOSE i \in 1..Len(s) :
            /\ s[i][2] = fd
            /\ \A j \in 1..(i - 1) : s[j][2] # fd
    ELSE 0

\* __remove_timeout_fd() that finds no entry
remove_timeout_fd_none(s, fd) == s

remove_timeout_fd(s, fd) ==
    IF FirstTimeoutIndex(s, fd) = 0 THEN s ELSE DelAt(s, FirstTimeoutIndex(s, fd))

\* register() without the test "file_number not in
\* self._registered_dispatchers": the later registration replaces the earlier
register_overwrites(o, r, w, t) ==
    LET file_number == fileno(o)
        mask == derive_flags(r, w)
    IN  /\ pollster' = pollster_register(pollster, file_number, mask)
        /\ registered_dispatchers' = Put(registered_dispatchers, file_number, o)
        /\ monitored_events' = Put(monitored_events, file_number, mask)
        /\ fds_with_timeout' =
               IF t # 0 THEN Append(fds_with_timeout, <<t, file_number>>)
               ELSE fds_with_timeout
        /\ last_timeout' = Put(last_timeout, file_number, t)

\* AsyncEvent.register(disp_obj); r, w, t are the answers of the object's
\* monitor_readable(), monitor_writable() and monitor_timeout()
register(o, r, w, t) ==
    LET file_number == fileno(o)
        mask == derive_flags(r, w)
    IN  IF file_number \notin DOMAIN registered_dispatchers
        THEN /\ pollster' = pollster_register(pollster, file_number, mask)
             /\ registered_dispatchers' = Put(registered_dispatchers, file_number, o)
             /\ monitored_events' = Put(monitored_events, file_number, mask)
             /\ fds_with_timeout' =
                    IF t # 0 THEN Append(fds_with_timeout, <<t, file_number>>)
                    ELSE fds_with_timeout
             /\ last_timeout' = Put(last_timeout, file_number, t)
        ELSE UNCHANGED reactor

\* what register(disp_obj) returns or raises
register_result(o) ==
    IF fileno(o) \notin DOMAIN registered_dispatchers THEN "True"
    ELSE IF ~raise_exceptions THEN "False"
    ELSE "IOError"

\* unregister() without "del self._monitored_events[file_number]"
unregister_keeps_mask(o) ==
    LET file_number == fileno(o)
    IN  IF file_number \in DOMAIN registered_dispatchers
        THEN /\ registered_dispatchers' = Del(registered_dispatchers, file_number)
             /\ fds_with_timeout' = remove_timeout_fd(fds_with_timeout, file_number)
             /\ pollster' = pollster_unregister(pollster, file_number)
             /\ last_timeout' = Del(last_timeout, file_number)
             /\ UNCHANGED monitored_events
        ELSE UNCHANGED reactor

\* AsyncEvent.unregister(disp_obj)
unregister(o) ==
    LET file_number == fileno(o)
    IN  IF file_number \in DOMAIN registered_dispatchers
        THEN /\ registered_dispatchers' = Del(registered_dispatchers, file_number)
             /\ monitored_events' = Del(monitored_events, file_number)
             /\ fds_with_timeout' = remove_timeout_fd(fds_with_timeout, file_number)
             /\ pollster' = pollster_unregister(pollster, file_number)
             /\ last_timeout' = Del(last_timeout, file_number)
        ELSE UNCHANGED reactor

\* what unregister(disp_obj) returns or raises
unregister_result(o) ==
    IF fileno(o) \in DOMAIN registered_dispatchers THEN "True"
    ELSE IF ~raise_exceptions THEN "False"
    ELSE "IOError"

\* ------------------------------------------------- the dispatcher's answers
\* the class of the object o (0: no object)
kind_of(o) == IF o \in DOMAIN kind THEN kind[o] ELSE "plain"

\* monitor_readable() that leaves the answer to the user in every state
monitor_readable_asks_user(o, readable) == readable

\* disp_obj.monitor_readable(); readable is the answer of the user's
\* readable().  Dispatcher: the user's answer.  TcpClientDispatcher: False
\* while not connected.  TcpServerDispatcher: whether it is accepting.
monitor_readable(o, readable) ==
    CASE kind_of(o) = "client" -> IF ~connected THEN FALSE ELSE readable
      [] kind_of(o) = "server" -> accepting
      [] OTHER -> readable

\* monitor_writable() that leaves the answer to the user in every state
monitor_writable_asks_user(o, writable) == writable

\* monitor_writable() of a client that answers True after the connection
\* was made as well
monitor_writable_stays_forced(o, writable) ==
    CASE kind_of(o) = "client" -> TRUE
      [] kind_of(o) = "server" -> FALSE
      [] OTHER -> writable

\* disp_obj.monitor_writable(); writable is the answer of the user's
\* writable().  TcpClientDispatcher: True while not connected.
\* TcpServerDispatcher: False.
monitor_writable(o, writable) ==
    CASE kind_of(o) = "client" -> IF ~connected THEN TRUE ELSE writable
      [] kind_of(o) = "server" -> FALSE
      [] OTHER -> writable

\* disp_obj.monitor_timeout(); timeout is the answer of the user's timeout().
\* TcpClientDispatcher: __connect_timeout_at while not connected.
\* TcpServerDispatcher.timeout() answers None.
monitor_timeout(o, timeout) ==
    CASE kind_of(o) = "client" ->
            IF ~connected THEN connect_timeout_at ELSE timeout
      [] kind_of(o) = "server" -> 0
      [] OTHER -> timeout

\* --------------------------------------------------------------------- Init
\* the reactor after construction, and the socket dispatchers before any call
BaseInit ==
    /\ registered_dispatchers = EmptyDict
    /\ monitored_events = EmptyDict
    /\ fds_with_timeout = <<>>
    /\ time_events = <<>>
    /\ pollster = EmptyDict
    /\ raise_exceptions \in BOOLEAN
    /\ stop_flag = FALSE
    /\ event_api \in {API_EPOLL, API_SELECT}
    /\ now = 0
    /\ closed = {}
    /\ last_timeout = EmptyDict
    /\ pc = "idle"
    /\ result = <<>>
    /\ idx = 0
    /\ stage = 0
    /\ flags = {}
    /\ fd_var = 0
    /\ disp_obj = 0
    /\ cb = NoCb
    /\ fired = <<>>
    /\ exc = "none"
    /\ due = <<<<>>, <<>>>>
    /\ served = <<>>
    /\ sched = EmptyDict
    /\ modify_calls = <<>>
    /\ ret = NoCall
    /\ loop_exc = "none"
    /\ kind = [o \in Objs |-> "plain"]
    /\ connected = FALSE
    /\ connect_timeout_at = 0
    /\ accepting = FALSE
    /\ prepared = 0
    /\ peer_addr = "None"

Init ==
    /\ BaseInit
    /\ NoLibrary

\* ------------------------------------------- calls made by the main program
\* (pc = "idle": the thread is not inside loop())
Register(o) ==
    /\ UNCHANGED <<timers_view, sockets, library>>
    /\ modify_calls' = <<>>
    /\ pc = "idle"
    /\ \E a \in Interests, t \in TimeoutAnswers :
         register(o, monitor_readable(o, a[1]), monitor_writable(o, a[2]),
                  monitor_timeout(o, t))
    /\ ret' = <<"register", o, register_result(o)>>
    /\ closed' = {}
    /\ UNCHANGED <<time_events, config, stop_flag, now, pc, position, cb,
                   fired, loop_exc>>

Unregister(o) ==
    /\ UNCHANGED <<timers_view, sockets, library>>
    /\ modify_calls' = <<>>
    /\ pc = "idle"
    /\ unregister(o)
    /\ ret' = <<"unregister", o, unregister_result(o)>>
    /\ closed' = {}
    /\ UNCHANGED <<time_events, config, stop_flag, now, pc, position, cb,
                   fired, loop_exc>>

\* AsyncEvent.add_scheduled_job(job_obj); t is the answer of job_obj.schedule()
add_scheduled_job(j, t) ==
    IF t # 0
    THEN /\ time_events' = Append(time_events, <<t, j>>)
         /\ ret' = <<"add_scheduled_job", j, "True">>
    ELSE /\ UNCHANGED time_events
         /\ ret' = <<"add_scheduled_job", j, "False">>

AddScheduledJob(j) ==
    /\ UNCHANGED <<timers_view, sockets, library>>
    /\ modify_calls' = <<>>
    /\ pc = "idle"
    /\ Len(time_events) < MaxJobEntries
    /\ \E t \in TimeoutAnswers : add_scheduled_job(j, t)
    /\ closed' = {}
    /\ UNCHANGED <<reactor, config, stop_flag, now, pc, position, cb, fired,
                   loop_exc>>

\* the clock advances while the main program runs
Tick ==
    /\ UNCHANGED <<timers_view, sockets, library>>
    /\ modify_calls' = <<>>
    /\ pc = "idle"
    /\ now < MaxTime
    /\ now' = now + 1
    /\ ret' = NoCall
    /\ closed' = {}
    /\ UNCHANGED <<reactor, time_events, config, stop_flag, pc, position, cb,
                   fired, loop_exc>>

\* ------------------------------------------------------------------- loop()
\* the main program calls loop(); it does so until an exception leaves it
Loop ==
    /\ UNCHANGED <<timers_view, sockets, library>>
    /\ modify_calls' = <<>>
    /\ pc = "idle"
    /\ loop_exc = "none"
    /\ pc' = "loop"
    /\ ret' = NoCall
    /\ closed' = {}
    /\ UNCHANGED <<reactor, time_events, config, stop_flag, now, position, cb,
                   fired, loop_exc>>

\* the while test that ignores the jobs
loop_continues_without_jobs ==
    (~stop_flag) /\ DOMAIN registered_dispatchers # {}

\* the while test that ignores the stop flag
loop_continues_ignores_stop ==
    DOMAIN registered_dispatchers # {} \/ time_events # <<>>

\* the while test of loop(): (not self.get_stop_flag()) and
\* (self.num_of_dispatchers() or self.num_of_scheduled_jobs())
loop_continues ==
    (~stop_flag) /\ (DOMAIN registered_dispatchers # {} \/ time_events # <<>>)

\* the while test of loop() fails: loop() returns
LoopReturn ==
    /\ UNCHANGED <<timers_view, sockets, library>>
    /\ modify_calls' = <<>>
    /\ pc = "loop"
    /\ ~loop_continues
    /\ pc' = "idle"
    /\ UNCHANGED <<reactor, time_events, config, stop_flag, now, closed,
                   position, cb, fired, ret, loop_exc>>

\* the computation without the comparison "nt < nearest_timeout": the list
\* examined last decides
nearest_of_latest(s, t, nearest) ==
    IF s = <<>> THEN nearest
    ELSE LET nt == sorted(s)[1][1] - t
         IN  IF nt <= 0 THEN 0 ELSE nt

\* the poll timeout __loop_step computes: -1 to block, else the wait
nearest_of(s, t, nearest) ==
    IF s = <<>> THEN nearest
    ELSE LET nt == sorted(s)[1][1] - t
         IN  IF nt <= 0 THEN 0
             ELSE IF nearest < 0 \/ nt < nearest THEN nt ELSE nearest

nearest_timeout == nearest_of(time_events, now, nearest_of(fds_with_timeout, now, -1))

\* what the multiplexer may report for a descriptor watched with mask m: bits
\* that were asked for; epoll and poll also report hangup or error unasked
ReadyFlags(m) ==
    {f \cup u : f \in SUBSET m,
                u \in IF event_api = API_SELECT THEN {{}}
                      ELSE {{}, event_hup_mask, event_err_mask}} \ {{}}

\* the batches poll may return: watched descriptors in any order, one pair
\* each.  A pair of result is <<fd, m, o>>, m the mask fd is watched with
\* when poll returns; the flags poll reported for the pair are drawn from
\* ReadyFlags(m) when the for loop reaches the pair (nothing reads them
\* earlier, so the runs are those of flags drawn when poll returns).  The
\* third component is not in the program: it records the dispatcher that is
\* registered under fd when poll returns (0: none).
ReadyPairs ==
    {<<fd, pollster[fd],
       IF fd \in DOMAIN registered_dispatchers
       THEN registered_dispatchers[fd] ELSE 0>> : fd \in DOMAIN pollster}

Batches ==
    {<<p>> : p \in {x \in ReadyPairs : ReadyFlags(x[2]) # {}}} \cup
    {b \in {<<p, q>> : p \in ReadyPairs, q \in ReadyPairs} :
        /\ b[1][1] # b[2][1]
        /\ ReadyFlags(b[1][2]) # {}
        /\ ReadyFlags(b[2][2]) # {}}

\* the errors poll may raise, by their errno
PollErrnos == {"EINTR", "EBADF"}

\* a clause that takes every error of poll for an interruption
absorbed_every_error(err) == TRUE

\* "if err.args[0] != errno.EINTR: raise": the error is turned into an empty
\* result
absorbed(err) == err = "EINTR"

\* one step of the while loop starts: the two lists are sorted, the wait is
\* computed and poll is called; the clock advances by d while poll blocks.
\* poll returns pairs before the wait has elapsed, and no pair once it has.
LoopStep ==
    /\ UNCHANGED <<timers_view, sockets, library>>
    /\ modify_calls' = <<>>
    /\ pc = "loop"
    /\ loop_continues
    /\ fds_with_timeout' = sorted(fds_with_timeout)
    /\ time_events' = sorted(time_events)
    /\ \E d \in 0..(MaxTime - now) :
         /\ now' = now + d
         /\ \/ /\ nearest_timeout < 0 \/ d <= nearest_timeout
               /\ \E b \in Batches :
                    /\ result' = b
                    /\ pc' = "events"
            \/ /\ nearest_timeout >= 0 /\ d >= nearest_timeout
               /\ result' = <<>>
               /\ pc' = "timeouts"
    /\ UNCHANGED <<registered_dispatchers, monitored_events, pollster,
                   last_timeout, config, stop_flag, closed, idx, stage, flags,
                   fd_var, disp_obj, exc, cb, fired, ret, loop_exc>>

\* the loop variables and the frame of the callback, when none is live
NoFrame ==
    /\ result' = <<>>
    /\ idx' = 0
    /\ stage' = 0
    /\ flags' = {}
    /\ fd_var' = 0
    /\ disp_obj' = 0
    /\ exc' = "none"
    /\ cb' = NoCb
    /\ fired' = <<>>

\* an exception leaves loop(): the thread is back in the main program
Escapes(e) ==
    /\ pc' = "idle"
    /\ loop_exc' = e
    /\ NoFrame

\* the step is over: back to the while test
StepDone ==
    /\ pc' = "loop"
    /\ UNCHANGED loop_exc
    /\ NoFrame

\* a step of the while loop in which poll raises select.error or IOError
\* with errno err, d after it was called and before the wait has elapsed: the
\* clause "except (select.error, IOError)" of __loop_step turns EINTR into
\* "result = []" and raises every other error again
PollRaises(err) ==
    /\ UNCHANGED <<timers_view, sockets, library>>
    /\ modify_calls' = <<>>
    /\ pc = "loop"
    /\ loop_continues
    /\ fds_with_timeout' = sorted(fds_with_timeout)
    /\ time_events' = sorted(time_events)
    /\ \E d \in 0..(MaxTime - now) :
         /\ nearest_timeout < 0 \/ d <= nearest_timeout
         /\ now' = now + d
    /\ IF absorbed(err)
       THEN /\ result' = <<>>
            /\ pc' = "timeouts"
            /\ UNCHANGED <<idx, stage, flags, fd_var, disp_obj, exc, cb,
                           fired, loop_exc>>
       ELSE Escapes(err)
    /\ UNCHANGED <<registered_dispatchers, monitored_events, pollster,
                   last_timeout, config, stop_flag, closed, ret>>

\* the four tests of __process_fired_events, in their order
StageKind(k) ==
    CASE k = 1 -> "expt" [] k = 2 -> "read" [] k = 3 -> "write" [] OTHER -> "close"

StageBit(k, fl) ==
    CASE k = 1 -> event_pri_mask # event_in_mask /\ fl \cap event_pri_mask # {}
      [] k = 2 -> fl \cap event_in_mask # {}
      [] k = 3 -> fl \cap event_out_mask # {}
      [] OTHER -> fl \cap (event_hup_mask \cup event_err_mask) # {}

\* the tests run from the first one again after each callback
next_stage_from_first(k, fl, fd, reg) ==
    IF \E j \in 1..4 : StageBit(j, fl) /\ fd \in DOMAIN reg
    THEN CHOOSE j \in 1..4 :
            /\ StageBit(j, fl) /\ fd \in DOMAIN reg
            /\ \A i \in 1..(j - 1) : ~(StageBit(i, fl) /\ fd \in DOMAIN reg)
    ELSE 5

\* the first test from k on that passes, 5 when none does
next_stage(k, fl, fd, reg) ==
    IF \E j \in k..4 : StageBit(j, fl) /\ fd \in DOMAIN reg
    THEN CHOOSE j \in k..4 :
            /\ StageBit(j, fl) /\ fd \in DOMAIN reg
            /\ \A i \in k..(j - 1) : ~(StageBit(i, fl) /\ fd \in DOMAIN reg)
    ELSE 5

\* __process_fired_events(fd, flags) is entered for the next pair of the batch
ProcessFiredEvents ==
    /\ UNCHANGED <<timers_view, sockets, library>>
    /\ modify_calls' = <<>>
    /\ pc = "events"
    /\ stage = 0
    /\ LET fd == Head(result)[1]
       IN  IF fd \in DOMAIN registered_dispatchers
           THEN \E f \in ReadyFlags(Head(result)[2]) :
                /\ result' = Tail(result)
                /\ fd_var' = fd
                /\ flags' = f
                /\ disp_obj' = registered_dispatchers[fd]
                /\ stage' = next_stage(1, f, fd, registered_dispatchers)
                /\ UNCHANGED <<pc, idx, exc, cb, fired, loop_exc>>
           ELSE Escapes("KeyError")
    /\ UNCHANGED <<reactor, time_events, config, stop_flag, now, closed, ret>>

\* disp_obj.handle_expt_event / handle_read_event / handle_write_event /
\* handle_close is called
DispatchEvent ==
    /\ UNCHANGED <<timers_view, sockets, library>>
    /\ modify_calls' = <<>>
    /\ pc = "events"
    /\ stage \in 1..4
    /\ pc' = "cb"
    /\ cb' = StageKind(stage)
    /\ fired' = Append(fired, StageKind(stage))
    /\ UNCHANGED <<reactor, time_events, config, stop_flag, now, closed,
                   position, ret, loop_exc>>

\* __update_associated_events() without the test
\* "self._monitored_events[fd] != flags": modify() is called every time
update_always_modifies(fd, r, w, t) ==
    IF fd \notin DOMAIN registered_dispatchers
    THEN /\ UNCHANGED reactor
         /\ modify_calls' = <<>>
    ELSE LET mask == derive_flags(r, w)
             removed == remove_timeout_fd(fds_with_timeout, fd)
         IN  /\ pollster' = pollster_modify(pollster, fd, mask)
             /\ modify_calls' = << <<fd, mask>> >>
             /\ monitored_events' = Put(monitored_events, fd, mask)
             /\ fds_with_timeout' =
                    IF t # 0 THEN Append(removed, <<t, fd>>) ELSE removed
             /\ last_timeout' = Put(last_timeout, fd, t)
             /\ UNCHANGED registered_dispatchers

\* __update_associated_events(fd); r, w, t are the answers of the dispatcher's
\* monitor_readable(), monitor_writable() and monitor_timeout()
update_associated_events(fd, r, w, t) ==
    IF fd \notin DOMAIN registered_dispatchers
    THEN /\ UNCHANGED reactor
         /\ modify_calls' = <<>>
    ELSE LET mask == derive_flags(r, w)
             removed == remove_timeout_fd(fds_with_timeout, fd)
         IN  /\ IF monitored_events[fd] # mask
                THEN /\ pollster' = pollster_modify(pollster, fd, mask)
                     /\ modify_calls' = << <<fd, mask>> >>
                     /\ monitored_events' = Put(monitored_events, fd, mask)
                ELSE /\ UNCHANGED <<pollster, monitored_events>>
                     /\ modify_calls' = <<>>
             /\ fds_with_timeout' =
                    IF t # 0 THEN Append(removed, <<t, fd>>) ELSE removed
             /\ last_timeout' = Put(last_timeout, fd, t)
             /\ UNCHANGED registered_dispatchers

\* the call of __update_associated_events(fd) that follows the callbacks of a
\* pair, or a timeout callback
UpdateAssociatedEvents ==
    /\ UNCHANGED <<timers_view, sockets, library>>
    /\ pc \in {"events", "timeouts"}
    /\ stage = 5
    /\ \E a \in Interests, t \in TimeoutAnswers :
         LET o == IF fd_var \in DOMAIN registered_dispatchers
                  THEN registered_dispatchers[fd_var] ELSE 0
         IN  update_associated_events(fd_var, monitor_readable(o, a[1]),
                                      monitor_writable(o, a[2]),
                                      monitor_timeout(o, t))
    /\ IF pc = "events" /\ result = <<>>
       THEN StepDone
       ELSE /\ stage' = 0
            /\ flags' = {}
            /\ fd_var' = 0
            /\ disp_obj' = 0
            /\ fired' = <<>>
            /\ UNCHANGED <<pc, result, idx, exc, cb, loop_exc>>
    /\ UNCHANGED <<time_events, config, stop_flag, now, closed, ret>>

\* one iteration of "for (timeout, fd) in self._fds_with_timeout": the list
\* iterator yields the element at its own index (idx counts the iterations
\* made), and the body deletes element 0 of the list
TimeoutIter ==
    /\ UNCHANGED <<timers_view, sockets, library>>
    /\ modify_calls' = <<>>
    /\ pc = "timeouts"
    /\ stage = 0
    /\ IF \/ idx + 1 > Len(fds_with_timeout)
          \/ not_elapsed(fds_with_timeout[idx + 1][1], now)
       THEN /\ pc' = "jobs"
            /\ idx' = 0
            /\ UNCHANGED <<fds_with_timeout, result, stage, flags, fd_var,
                           disp_obj, exc, cb, fired, loop_exc>>
       ELSE LET fd == fds_with_timeout[idx + 1][2]
            IN  /\ fds_with_timeout' = Tail(fds_with_timeout)
                /\ IF fd \in DOMAIN registered_dispatchers
                   THEN /\ idx' = idx + 1
                        /\ fd_var' = fd
                        /\ disp_obj' = registered_dispatchers[fd]
                        /\ pc' = "cb"
                        /\ cb' = "timeout"
                        /\ UNCHANGED <<result, stage, flags, exc, fired,
                                       loop_exc>>
                   ELSE Escapes("KeyError")
    /\ UNCHANGED <<registered_dispatchers, monitored_events, pollster,
                   last_timeout, time_events, config, stop_flag, now, closed,
                   ret>>

\* one iteration of "for (timeout, job_obj) in self._time_events"
JobIter ==
    /\ UNCHANGED <<timers_view, sockets, library>>
    /\ modify_calls' = <<>>
    /\ pc = "jobs"
    /\ stage = 0
    /\ IF idx + 1 > Len(time_events) \/ not_elapsed(time_events[idx + 1][1], now)
       THEN /\ StepDone
            /\ UNCHANGED time_events
       ELSE /\ time_events' = Tail(time_events)
            /\ idx' = idx + 1
            /\ disp_obj' = time_events[idx + 1][2]
            /\ pc' = "cb"
            /\ cb' = "job"
            /\ UNCHANGED <<result, stage, flags, fd_var, exc, fired, loop_exc>>
    /\ UNCHANGED <<reactor, config, stop_flag, now, closed, ret>>

\* new_timeout = job_obj.schedule() after the job's callback returned
JobReschedule ==
    /\ UNCHANGED <<timers_view, sockets, library>>
    /\ modify_calls' = <<>>
    /\ pc = "jobs"
    /\ stage = 5
    /\ \E new_timeout \in TimeoutAnswers :
         time_events' = IF new_timeout # 0
                        THEN Append(time_events, <<new_timeout, disp_obj>>)
                        ELSE time_events
    /\ stage' = 0
    /\ disp_obj' = 0
    /\ UNCHANGED <<reactor, config, stop_flag, now, closed, pc, result, idx,
                   flags, fd_var, exc, cb, fired, ret, loop_exc>>

\* ------------------------------------------------------ inside a callback
\* The callback is code of the user: it may call the reactor, and it returns
\* or raises.
CbRegister(o) ==
    /\ UNCHANGED <<timers_view, sockets, library>>
    /\ modify_calls' = <<>>
    /\ pc = "cb"
    /\ \E a \in Interests, t \in TimeoutAnswers :
         register(o, monitor_readable(o, a[1]), monitor_writable(o, a[2]),
                  monitor_timeout(o, t))
    /\ closed' = {}
    /\ UNCHANGED <<time_events, config, stop_flag, now, pc, position, cb,
                   fired, ret, loop_exc>>

CbUnregister(o) ==
    /\ UNCHANGED <<timers_view, sockets, library>>
    /\ modify_calls' = <<>>
    /\ pc = "cb"
    /\ unregister(o)
    /\ closed' = {}
    /\ UNCHANGED <<time_events, config, stop_flag, now, pc, position, cb,
                   fired, ret, loop_exc>>

\* Dispatcher.handle_close(ae_obj): ae_obj.unregister(self), then
\* self.close(); the IOError of a failed unregister leaves it before close()
handle_close_raises == unregister_result(disp_obj) = "IOError"

\* handle_close() that closes and leaves the registration alone
handle_close_only_closes(ae_obj) ==
    /\ UNCHANGED reactor
    /\ closed' = {disp_obj}

\* ae_obj: whether a reactor was supplied ("if ae_obj:")
handle_close(ae_obj) ==
    IF ae_obj
    THEN /\ unregister(disp_obj)
         /\ closed' = IF handle_close_raises THEN {} ELSE {disp_obj}
    ELSE /\ UNCHANGED reactor
         /\ closed' = {disp_obj}

\* the callback of a dispatcher calls self.handle_close(ae_obj)
CbHandleClose ==
    /\ UNCHANGED <<timers_view, sockets, library>>
    /\ modify_calls' = <<>>
    /\ pc = "cb"
    /\ cb # "job"
    /\ handle_close(TRUE)
    /\ IF handle_close_raises
       THEN /\ pc' = "raise"
            /\ exc' = "IOError"
       ELSE UNCHANGED <<pc, exc>>
    /\ UNCHANGED <<time_events, config, stop_flag, now, result, idx, stage,
                   flags, fd_var, disp_obj, cb, fired, ret, loop_exc>>

\* the callback of a dispatcher calls self.handle_close(None)
CbHandleCloseNoReactor ==
    /\ UNCHANGED <<timers_view, sockets, library>>
    /\ modify_calls' = <<>>
    /\ pc = "cb"
    /\ cb # "job"
    /\ handle_close(FALSE)
    /\ UNCHANGED <<time_events, config, stop_flag, now, pc, position, cb,
                   fired, ret, loop_exc>>

\* the callback returns
CbReturn ==
    /\ UNCHANGED <<timers_view, sockets, library>>
    /\ modify_calls' = <<>>
    /\ pc = "cb"
    /\ cb' = NoCb
    /\ CASE cb = "timeout" -> pc' = "timeouts" /\ stage' = 5
         [] cb = "job" -> pc' = "jobs" /\ stage' = 5
         [] OTHER ->
              /\ pc' = "events"
              /\ stage' = next_stage(stage + 1, flags, fd_var,
                                     registered_dispatchers)
    /\ closed' = {}
    /\ UNCHANGED <<reactor, time_events, config, stop_flag, now, result, idx,
                   flags, fd_var, disp_obj, exc, fired, ret, loop_exc>>

\* the callback raises: an Exception, or one of the loop-termination signals
\* ExitNow, KeyboardInterrupt and SystemExit ("ExitNow")
CbRaise(e) ==
    /\ UNCHANGED <<timers_view, sockets, library>>
    /\ modify_calls' = <<>>
    /\ pc = "cb"
    /\ pc' = "raise"
    /\ exc' = e
    /\ closed' = {}
    /\ UNCHANGED <<reactor, time_events, config, stop_flag, now, result, idx,
                   stage, flags, fd_var, disp_obj, cb, fired, ret, loop_exc>>

\* a clause "except Exception" that comes first and takes the signals too
caught_signals_too(k, e) == k \in {"expt", "read", "write", "close"}

\* whether the exception e raised by a callback of kind k meets the clause
\* "except Exception" of __process_fired_events: the signals meet "except
\* (ExitNow, KeyboardInterrupt, SystemExit): raise" first, and the callbacks
\* of timeouts and jobs are called outside any try statement
caught(k, e) == k \in {"expt", "read", "write", "close"} /\ e # "ExitNow"

\* the exception leaves loop()
Propagate ==
    /\ UNCHANGED <<timers_view, sockets, library>>
    /\ modify_calls' = <<>>
    /\ pc = "raise"
    /\ ~caught(cb, exc)
    /\ Escapes(exc)
    /\ closed' = {}
    /\ UNCHANGED <<reactor, time_events, config, stop_flag, now, ret>>

\* Dispatcher.handle_error(ae_obj, e), called from the clause "except
\* Exception" of __process_fired_events: it logs and calls
\* self.handle_close(ae_obj), whose IOError leaves loop()
handle_error ==
    /\ handle_close(TRUE)
    /\ IF handle_close_raises
       THEN Escapes("IOError")
       ELSE /\ pc' = "events"
            /\ stage' = 5
            /\ exc' = "none"
            /\ cb' = NoCb
            /\ UNCHANGED <<result, idx, flags, fd_var, disp_obj, fired,
                           loop_exc>>

HandleError ==
    /\ UNCHANGED <<timers_view, sockets, library>>
    /\ modify_calls' = <<>>
    /\ pc = "raise"
    /\ caught(cb, exc)
    /\ handle_error
    /\ UNCHANGED <<time_events, config, stop_flag, now, ret>>

Next ==
    \/ \E o \in Objs : Register(o)
    \/ \E o \in Objs : Unregister(o)
    \/ \E j \in Jobs : AddScheduledJob(j)
    \/ Tick
    \/ Loop
    \/ LoopReturn
    \/ LoopStep
    \/ \E err \in PollErrnos : PollRaises(err)
    \/ ProcessFiredEvents
    \/ DispatchEvent
    \/ UpdateAssociatedEvents
    \/ TimeoutIter
    \/ JobIter
    \/ JobReschedule
    \/ \E o \in Objs : CbRegister(o)
    \/ \E o \in Objs : CbUnregister(o)
    \/ CbHandleClose
    \/ CbReturn
    \/ \E e \in {"Exception", "ExitNow"} : CbRaise(e)
    \/ Propagate
    \/ HandleError

Spec == Init /\ [][Next]_vars

\* ------------------------------------------------------- the stop flag
\* A third specification: the program of Spec whose callbacks return or
\* unregister, and in which set_stop_flag() is called: by the main program
\* before loop(), by a callback, or between two steps (by a signal handler or
\* another thread, while the thread is at the while test).
\* AsyncEvent.set_stop_flag()
SetStopFlag ==
    /\ UNCHANGED <<timers_view, sockets, library>>
    /\ modify_calls' = <<>>
    /\ pc \in {"idle", "cb", "loop"}
    /\ stop_flag' = TRUE
    /\ ret' = IF pc = "idle" THEN <<"set_stop_flag", 0, "None">> ELSE ret
    /\ closed' = {}
    /\ UNCHANGED <<reactor, time_events, config, now, pc, position, cb, fired,
                   loop_exc>>

StopNext ==
    \/ \E o \in Objs : Register(o)
    \/ \E j \in Jobs : AddScheduledJob(j)
    \/ Tick
    \/ Loop
    \/ LoopReturn
    \/ LoopStep
    \/ ProcessFiredEvents
    \/ DispatchEvent
    \/ UpdateAssociatedEvents
    \/ TimeoutIter
    \/ JobIter
    \/ JobReschedule
    \/ \E o \in Objs : CbUnregister(o)
    \/ CbReturn
    \/ SetStopFlag

StopSpec == Init /\ [][StopNext]_vars

\* ------------------------------------- the default close and error callbacks
\* A fourth specification: the program of Spec whose callbacks return, raise,
\* or call the default close callback, with the reactor or without it.
DefaultsNext ==
    \/ \E o \in Objs : Register(o)
    \/ \E j \in Jobs : AddScheduledJob(j)
    \/ Tick
    \/ Loop
    \/ LoopReturn
    \/ LoopStep
    \/ \E err \in PollErrnos : PollRaises(err)
    \/ ProcessFiredEvents
    \/ DispatchEvent
    \/ UpdateAssociatedEvents
    \/ TimeoutIter
    \/ JobIter
    \/ JobReschedule
    \/ CbHandleClose
    \/ CbHandleCloseNoReactor
    \/ CbReturn
    \/ \E e \in {"Exception", "ExitNow"} : CbRaise(e)
    \/ Propagate
    \/ HandleError

DefaultsSpec == Init /\ [][DefaultsNext]_vars

\* ---------------------------------------------------- the socket dispatchers
\* A fifth specification: the reactor with a TcpClientDispatcher (object 1)
\* and a TcpServerDispatcher (object 2) whose sockets exist, and whose
\* callbacks are those of the classes (the user's handle_* return).
MaxPrepared == 2

SocketObjs == {1, 2}

SocketInit ==
    /\ registered_dispatchers = EmptyDict
    /\ monitored_events = EmptyDict
    /\ fds_with_timeout = <<>>
    /\ time_events = <<>>
    /\ pollster = EmptyDict
    /\ raise_exceptions \in BOOLEAN
    /\ stop_flag = FALSE
    /\ event_api \in {API_EPOLL, API_SELECT}
    /\ now = 0
    /\ closed = {}
    /\ last_timeout = EmptyDict
    /\ pc = "idle"
    /\ result = <<>>
    /\ idx = 0
    /\ stage = 0
    /\ flags = {}
    /\ fd_var = 0
    /\ disp_obj = 0
    /\ cb = NoCb
    /\ fired = <<>>
    /\ exc = "none"
    /\ due = <<<<>>, <<>>>>
    /\ served = <<>>
    /\ sched = EmptyDict
    /\ modify_calls = <<>>
    /\ ret = NoCall
    /\ loop_exc = "none"
    /\ kind = [o \in Objs |-> CASE o = 1 -> "client"
                                [] o = 2 -> "server"
                                [] OTHER -> "plain"]
    /\ connected = FALSE
    /\ connect_timeout_at = 0
    /\ accepting = FALSE
    /\ prepared = 0
    /\ peer_addr = "None"
    /\ NoLibrary

\* the answers of connect_ex()
ConnectErrnos == {"0", "EINPROGRESS", "ECONNREFUSED"}

\* TcpClientDispatcher.connect(addr, timeout), called by the main program
\* (initialize() calls it): err is the answer of connect_ex(), timeout the
\* number of seconds given (0: None)
Connect(err, timeout) ==
    /\ UNCHANGED <<timers_view, library>>
    /\ modify_calls' = <<>>
    /\ pc = "idle"
    /\ ~connected
    /\ now + timeout <= MaxTime
    /\ connect_timeout_at' =
          IF timeout # 0 THEN now + timeout ELSE connect_timeout_at
    /\ peer_addr' = "addr"
    /\ connected' = (err \in {"0", "EISCONN"})
    /\ ret' = <<"connect", 1,
                IF err \in {"EWOULDBLOCK", "EAGAIN", "EALREADY", "EINPROGRESS",
                            "0", "EISCONN"}
                THEN err ELSE "socket.error">>
    /\ closed' = {}
    /\ UNCHANGED <<reactor, time_events, config, stop_flag, now, pc, position,
                   cb, fired, loop_exc, accepting, prepared>>

\* TcpServerDispatcher.listen(backlog), called by the main program
Listen ==
    /\ UNCHANGED <<timers_view, library>>
    /\ modify_calls' = <<>>
    /\ pc = "idle"
    /\ ~accepting
    /\ accepting' = TRUE
    /\ ret' = <<"listen", 2, "None">>
    /\ closed' = {}
    /\ UNCHANGED <<reactor, time_events, config, stop_flag, now, pc, position,
                   cb, fired, loop_exc, connected, connect_timeout_at,
                   prepared, peer_addr>>

\* a client whose write events all reach the user's handle_write
hands_to_user_any(o, k) == k # "close"

\* the callback hands on to a method of the user: handle_write_event of a
\* client that is not connected does not, handle_read of the server is the
\* class's own, and the event "close" calls Dispatcher.handle_close
hands_to_user(o, k) ==
    /\ ~(kind_of(o) = "client" /\ k = "write" /\ ~connected)
    /\ ~(kind_of(o) = "server" /\ k = "read")
    /\ k # "close"

\* the user's method returns
SockCbReturn ==
    /\ hands_to_user(disp_obj, cb)
    /\ CbReturn

\* the event "close": Dispatcher.handle_close(ae_obj) runs and returns
SockHandleCloseEvent ==
    /\ UNCHANGED <<timers_view, sockets, library>>
    /\ modify_calls' = <<>>
    /\ pc = "cb"
    /\ cb = "close"
    /\ handle_close(TRUE)
    /\ IF handle_close_raises
       THEN /\ pc' = "raise"
            /\ exc' = "IOError"
            /\ UNCHANGED <<cb, stage>>
       ELSE /\ pc' = "events"
            /\ cb' = NoCb
            /\ stage' = 5
            /\ UNCHANGED exc
    /\ UNCHANGED <<time_events, config, stop_flag, now, result, idx, flags,
                   fd_var, disp_obj, fired, ret, loop_exc>>

\* the answers of getsockopt(SOL_SOCKET, SO_ERROR)
SoErrors == {"0", "ECONNREFUSED"}

\* a write event that takes every answer for a completed connection
write_event_connects_always(err) == TRUE

\* "if err != 0: raise socket.error(...)"
write_event_connects(err) == err = "0"

\* TcpClientDispatcher.handle_write_event(ae_obj) of a client that is not
\* connected; err is the socket's pending error
ClientHandleWriteEvent(err) ==
    /\ UNCHANGED <<timers_view, library>>
    /\ modify_calls' = <<>>
    /\ pc = "cb"
    /\ cb = "write"
    /\ kind_of(disp_obj) = "client"
    /\ ~connected
    /\ IF write_event_connects(err)
       THEN /\ connected' = TRUE
            /\ pc' = "events"
            /\ cb' = NoCb
            /\ stage' = next_stage(stage + 1, flags, fd_var,
                                   registered_dispatchers)
            /\ UNCHANGED exc
       ELSE /\ pc' = "raise"
            /\ exc' = "socket.error"
            /\ UNCHANGED <<connected, cb, stage>>
    /\ closed' = {}
    /\ UNCHANGED <<reactor, time_events, config, stop_flag, now, result, idx,
                   flags, fd_var, disp_obj, fired, ret, loop_exc,
                   connect_timeout_at, accepting, prepared, peer_addr>>

\* the outcomes of self._sock.accept(): a connection, TypeError, or
\* socket.error with the errno named
AcceptOutcomes == {"ok", "TypeError", "EWOULDBLOCK", "ECONNABORTED", "EMFILE"}

\* TcpServerDispatcher.accept(): "client" for the pair it returns, "None",
\* or the exception that leaves it.  The last clause evaluates the name e,
\* which only the clause "except TypeError as e" binds, before its raise
\* statement is reached.
accept(outcome) ==
    CASE outcome = "ok" -> "client"
      [] outcome = "TypeError" -> "None"
      [] outcome \in {"EWOULDBLOCK", "EAGAIN", "ECONNABORTED"} -> "None"
      [] OTHER -> "UnboundLocalError"

\* TcpServerDispatcher.handle_read(ae_obj): accept() is called once, and
\* prepare_serving_client() once for the connection it returns
ServerHandleRead(outcome) ==
    /\ UNCHANGED <<timers_view, library>>
    /\ modify_calls' = <<>>
    /\ pc = "cb"
    /\ cb = "read"
    /\ kind_of(disp_obj) = "server"
    /\ outcome = "ok" => prepared < MaxPrepared
    /\ prepared' = IF accept(outcome) = "client" THEN prepared + 1
                   ELSE prepared
    /\ IF accept(outcome) \in {"client", "None"}
       THEN /\ pc' = "events"
            /\ cb' = NoCb
            /\ stage' = next_stage(stage + 1, flags, fd_var,
                                   registered_dispatchers)
            /\ UNCHANGED exc
       ELSE /\ pc' = "raise"
            /\ exc' = accept(outcome)
            /\ UNCHANGED <<cb, stage>>
    /\ closed' = {}
    /\ UNCHANGED <<reactor, time_events, config, stop_flag, now, result, idx,
                   flags, fd_var, disp_obj, fired, ret, loop_exc, connected,
                   connect_timeout_at, accepting, peer_addr>>

SocketNext ==
    \/ \E o \in SocketObjs : Register(o)
    \/ \E err \in ConnectErrnos, timeout \in TimeoutAnswers :
          Connect(err, timeout)
    \/ Listen
    \/ Tick
    \/ Loop
    \/ LoopReturn
    \/ LoopStep
    \/ ProcessFiredEvents
    \/ DispatchEvent
    \/ UpdateAssociatedEvents
    \/ TimeoutIter
    \/ JobIter
    \/ SockCbReturn
    \/ SockHandleCloseEvent
    \/ \E err \in SoErrors : ClientHandleWriteEvent(err)
    \/ \E outcome \in AcceptOutcomes : ServerHandleRead(outcome)
    \/ HandleError

SocketSpec == SocketInit /\ [][SocketNext]_vars

\* ------------------------------------------------ the timers on their own
\* A second specification: dispatchers that ask for no readiness event, each
\* with a descriptor of its own, and jobs, on a network where nothing
\* happens, so that every step of loop() is a pure-timeout step.
NumTimerJobs == 2
MaxInstant == 2
MaxAnswers == 2

TimerObjs == (1..NumFds) \cup {NumFds + 2}
TimerJobs == 1..NumTimerJobs
TimerAnswers == 0..MaxInstant

\* select.poll() takes milliseconds, epoll and select take seconds
poll_unit == IF event_api = API_POLL THEN 1000 ELSE 1

\* the argument of self._pollster.poll()
poll_argument ==
    IF nearest_timeout # 0 /\ event_api = API_POLL /\ nearest_timeout > 0
    THEN nearest_timeout * 1000
    ELSE nearest_timeout

\* the descriptors (or jobs) of the entries of s whose instant is at or
\* before t, in the order of s
DueIds(s, t) ==
    LET elapsed(e) == e[1] <= t
        es == SelectSeq(s, elapsed)
    IN  [i \in 1..Len(es) |-> es[i][2]]

TimerInit ==
    /\ registered_dispatchers = EmptyDict
    /\ monitored_events = EmptyDict
    /\ fds_with_timeout = <<>>
    /\ time_events = <<>>
    /\ pollster = EmptyDict
    /\ raise_exceptions = TRUE
    /\ stop_flag = FALSE
    /\ event_api \in {API_EPOLL, API_POLL, API_SELECT}
    /\ now = 0
    /\ closed = {}
    /\ last_timeout = EmptyDict
    /\ pc = "idle"
    /\ result = <<>>
    /\ idx = 0
    /\ stage = 0
    /\ flags = {}
    /\ fd_var = 0
    /\ disp_obj = 0
    /\ cb = NoCb
    /\ fired = <<>>
    /\ exc = "none"
    /\ due = <<<<>>, <<>>>>
    /\ served = <<>>
    /\ sched = [j \in TimerJobs |-> <<0, 0>>]
    /\ modify_calls = <<>>
    /\ ret = NoCall
    /\ loop_exc = "none"
    /\ kind = [o \in Objs |-> "plain"]
    /\ connected = FALSE
    /\ connect_timeout_at = 0
    /\ accepting = FALSE
    /\ prepared = 0
    /\ peer_addr = "None"
    /\ NoLibrary

\* what no action of this specification changes
timers_fixed == <<config, stop_flag, closed, result, flags, fired, exc,
                  sockets, library>>

\* register(disp_obj) of a dispatcher that is neither readable nor writable
TimerRegister(o) ==
    /\ pc = "idle"
    /\ fileno(o) \notin DOMAIN registered_dispatchers
    /\ \E t \in TimerAnswers : register(o, FALSE, FALSE, t)
    /\ ret' = NoCall
    /\ modify_calls' = <<>>
    /\ UNCHANGED <<time_events, now, pc, idx, stage, fd_var, disp_obj, cb,
                   loop_exc, timers_view, timers_fixed>>

\* add_scheduled_job(job_obj) of a job that was not added before; a job
\* answers at most MaxAnswers instants before it answers None
TimerAddScheduledJob(j) ==
    /\ pc = "idle"
    /\ sched[j] = <<0, 0>>
    /\ \E t \in TimerAnswers :
         /\ add_scheduled_job(j, t)
         /\ sched' = IF t # 0 THEN [sched EXCEPT ![j] = <<1, 0>>] ELSE sched
    /\ modify_calls' = <<>>
    /\ UNCHANGED <<reactor, now, pc, idx, stage, fd_var, disp_obj, cb,
                   loop_exc, due, served, timers_fixed>>

TimerTick ==
    /\ pc = "idle"
    /\ now < MaxInstant
    /\ now' = now + 1
    /\ ret' = NoCall
    /\ modify_calls' = <<>>
    /\ UNCHANGED <<reactor, time_events, pc, idx, stage, fd_var, disp_obj, cb,
                   loop_exc, timers_view, timers_fixed>>

TimerLoop ==
    /\ pc = "idle"
    /\ loop_exc = "none"
    /\ pc' = "loop"
    /\ ret' = NoCall
    /\ modify_calls' = <<>>
    /\ UNCHANGED <<reactor, time_events, now, idx, stage, fd_var, disp_obj, cb,
                   loop_exc, timers_view, timers_fixed>>

TimerLoopReturn ==
    /\ pc = "loop"
    /\ stop_flag \/ (DOMAIN registered_dispatchers = {} /\ time_events = <<>>)
    /\ pc' = "idle"
    /\ modify_calls' = <<>>
    /\ UNCHANGED <<reactor, time_events, now, idx, stage, fd_var, disp_obj, cb,
                   ret, loop_exc, timers_view, timers_fixed>>

\* a step in which poll returns no pair: its wait elapsed, or a signal
\* interrupted it (EINTR) after d; the clock is then read again
TimerLoopStep ==
    /\ pc = "loop"
    /\ ~stop_flag
    /\ DOMAIN registered_dispatchers # {} \/ time_events # <<>>
    /\ fds_with_timeout' = sorted(fds_with_timeout)
    /\ time_events' = sorted(time_events)
    /\ \E d \in 0..(MaxInstant - now) :
         /\ poll_argument < 0 \/ d * poll_unit <= poll_argument
         /\ now' = now + d
         /\ due' = <<DueIds(sorted(fds_with_timeout), now + d),
                     DueIds(sorted(time_events), now + d)>>
    /\ served' = <<>>
    /\ pc' = "timeouts"
    /\ modify_calls' = <<>>
    /\ UNCHANGED <<registered_dispatchers, monitored_events, pollster,
                   last_timeout, idx, stage, fd_var, disp_obj, cb, ret,
                   loop_exc, sched, timers_fixed>>

\* one iteration of "for (timeout, fd) in self._fds_with_timeout"
TimerTimeoutIter ==
    /\ pc = "timeouts"
    /\ stage = 0
    /\ IF \/ idx + 1 > Len(fds_with_timeout)
          \/ not_elapsed(fds_with_timeout[idx + 1][1], now)
       THEN /\ pc' = "jobs"
            /\ idx' = 0
            /\ UNCHANGED <<fds_with_timeout, fd_var, disp_obj, cb, served>>
       ELSE /\ fds_with_timeout' = Tail(fds_with_timeout)
            /\ idx' = idx + 1
            /\ fd_var' = fds_with_timeout[idx + 1][2]
            /\ disp_obj' = registered_dispatchers[fds_with_timeout[idx + 1][2]]
            /\ pc' = "cb"
            /\ cb' = "timeout"
            /\ served' = Append(served, <<"timeout", fds_with_timeout[idx + 1][2]>>)
    /\ modify_calls' = <<>>
    /\ UNCHANGED <<registered_dispatchers, monitored_events, pollster,
                   last_timeout, time_events, now, stage, ret, loop_exc, due,
                   sched, timers_fixed>>

\* handle_timeout_event() or handle_job_event() returns
TimerCbReturn ==
    /\ pc = "cb"
    /\ cb' = NoCb
    /\ pc' = IF cb = "timeout" THEN "timeouts" ELSE "jobs"
    /\ stage' = 5
    /\ modify_calls' = <<>>
    /\ UNCHANGED <<reactor, time_events, now, idx, fd_var, disp_obj, ret,
                   loop_exc, timers_view, timers_fixed>>

\* __update_associated_events(fd) after the timeout callback
TimerUpdateAssociatedEvents ==
    /\ pc = "timeouts"
    /\ stage = 5
    /\ \E t \in TimerAnswers : update_associated_events(fd_var, FALSE, FALSE, t)
    /\ stage' = 0
    /\ fd_var' = 0
    /\ disp_obj' = 0
    /\ UNCHANGED <<time_events, now, pc, idx, cb, ret, loop_exc, timers_view,
                   timers_fixed>>

\* one iteration of "for (timeout, job_obj) in self._time_events"
TimerJobIter ==
    /\ pc = "jobs"
    /\ stage = 0
    /\ IF idx + 1 > Len(time_events) \/ not_elapsed(time_events[idx + 1][1], now)
       THEN /\ pc' = "loop"
            /\ idx' = 0
            /\ UNCHANGED <<time_events, disp_obj, cb, served, sched>>
       ELSE /\ time_events' = Tail(time_events)
            /\ idx' = idx + 1
            /\ disp_obj' = time_events[idx + 1][2]
            /\ pc' = "cb"
            /\ cb' = "job"
            /\ served' = Append(served, <<"job", time_events[idx + 1][2]>>)
            /\ sched' = [sched EXCEPT ![time_events[idx + 1][2]] =
                            <<@[1], @[2] + 1>>]
    /\ modify_calls' = <<>>
    /\ UNCHANGED <<reactor, now, stage, fd_var, ret, loop_exc, due,
                   timers_fixed>>

\* new_timeout = job_obj.schedule() after the job's callback returned
TimerJobReschedule ==
    /\ pc = "jobs"
    /\ stage = 5
    /\ \E new_timeout \in TimerAnswers :
         /\ new_timeout # 0 => sched[disp_obj][1] < MaxAnswers
         /\ IF new_timeout # 0
            THEN /\ time_events' = Append(time_events, <<new_timeout, disp_obj>>)
                 /\ sched' = [sched EXCEPT ![disp_obj] = <<@[1] + 1, @[2]>>]
            ELSE UNCHANGED <<time_events, sched>>
    /\ stage' = 0
    /\ disp_obj' = 0
    /\ modify_calls' = <<>>
    /\ UNCHANGED <<reactor, now, pc, idx, fd_var, cb, ret, loop_exc, due,
                   served, timers_fixed>>

TimerNext ==
    \/ \E o \in TimerObjs : TimerRegister(o)
    \/ \E j \in TimerJobs : TimerAddScheduledJob(j)
    \/ TimerTick
    \/ TimerLoop
    \/ TimerLoopReturn
    \/ TimerLoopStep
    \/ TimerTimeoutIter
    \/ TimerCbReturn
    \/ TimerUpdateAssociatedEvents
    \/ TimerJobIter
    \/ TimerJobReschedule

TimerSpec == TimerInit /\ [][TimerNext]_vars

\* ================================================================ properties
\* the entries of fd in a list of <<instant, fd>>
EntriesOf(s, fd) == LET is_fd(e) == e[2] = fd IN SelectSeq(s, is_fd)
\* the list without the entries of fd
WithoutFd(s, fd) == LET not_fd(e) == e[2] # fd IN SelectSeq(s, not_fd)

\* C1: in every state -- after every register, unregister and loop step, and
\* inside callbacks that register or unregister -- the descriptors of the
\* dispatcher registry are exactly the descriptors with an entry in
\* monitored_events (a dict: one entry per key), the empty mask included.
C1_RegistryMatchesMonitored ==
    DOMAIN registered_dispatchers = DOMAIN monitored_events

\* a callback has unregistered its own dispatcher while another descriptor is
\* registered with the empty mask
C1_Witness ==
    /\ pc = "cb"
    /\ fd_var \notin DOMAIN registered_dispatchers
    /\ \E fd \in DOMAIN monitored_events : monitored_events[fd] = {}

\* C2: between reactor operations (the thread is in the main program or at
\* the while test of loop(), no exception having left loop()), a registered
\* descriptor has an entry in fds_with_timeout iff the reactor's latest
\* timeout query on its dispatcher answered a non-zero instant, and the entry
\* carries that instant.
C2_TimeoutEntryIffLastAnswer ==
    (pc \in {"idle", "loop"} /\ loop_exc = "none") =>
        \A fd \in DOMAIN registered_dispatchers :
            EntriesOf(fds_with_timeout, fd) =
                IF last_timeout[fd] = 0 THEN <<>>
                ELSE << <<last_timeout[fd], fd>> >>

\* C3: fds_with_timeout never holds two entries of one descriptor, and every
\* descriptor with an entry is registered.
C3_TimeoutEntriesUniqueAndRegistered ==
    \A i \in 1..Len(fds_with_timeout) :
        /\ fds_with_timeout[i][2] \in DOMAIN registered_dispatchers
        /\ \A j \in 1..Len(fds_with_timeout) :
              fds_with_timeout[i][2] = fds_with_timeout[j][2] => i = j

\* in a pure-timeout step, a timeout callback was served and its descriptor
\* armed again, next to the entry of another descriptor
C3_Witness ==
    /\ pc = "timeouts"
    /\ idx = 1
    /\ stage = 0
    /\ Len(fds_with_timeout) = 2

\* C4: register of a dispatcher whose descriptor is registered fails -- it
\* raises IOError in raise mode and returns False otherwise -- and leaves the
\* registry, monitored_events, fds_with_timeout, time_events and the
\* multiplexer's watch set as they were, whether the main program or a
\* callback makes the call.
C4_DuplicateRegisterFails ==
    [][\A o \in Objs :
          fileno(o) \in DOMAIN registered_dispatchers =>
            /\ Register(o) =>
                 /\ ret' = <<"register", o,
                             IF raise_exceptions THEN "IOError" ELSE "False">>
                 /\ UNCHANGED <<registered_dispatchers, monitored_events,
                                fds_with_timeout, time_events, pollster>>
            /\ CbRegister(o) =>
                 UNCHANGED <<registered_dispatchers, monitored_events,
                             fds_with_timeout, time_events, pollster>>]_vars

\* the second dispatcher of descriptor 1 was refused while the first is in
\* place, with a timeout entry
C4_Witness ==
    /\ ret[1] = "register"
    /\ ret[2] = NumFds + 1
    /\ ret[3] \in {"False", "IOError"}
    /\ registered_dispatchers[1] = 1
    /\ EntriesOf(fds_with_timeout, 1) # <<>>

\* C5: unregister of a dispatcher whose descriptor is not registered fails
\* (IOError in raise mode, False otherwise) and changes no reactor state;
\* unregister of one whose descriptor is registered returns True and removes
\* the descriptor from the registry, monitored_events, fds_with_timeout and
\* the multiplexer, the entries of the other descriptors and time_events
\* staying as they were.
C5_Unregister ==
    [][\A o \in Objs :
          (Unregister(o) \/ CbUnregister(o)) =>
            IF fileno(o) \notin DOMAIN registered_dispatchers
            THEN /\ UNCHANGED <<registered_dispatchers, monitored_events,
                                fds_with_timeout, time_events, pollster>>
                 /\ Unregister(o) =>
                      ret' = <<"unregister", o,
                               IF raise_exceptions THEN "IOError" ELSE "False">>
            ELSE /\ registered_dispatchers' = Del(registered_dispatchers, fileno(o))
                 /\ monitored_events' = Del(monitored_events, fileno(o))
                 /\ pollster' = Del(pollster, fileno(o))
                 /\ fds_with_timeout' = WithoutFd(fds_with_timeout, fileno(o))
                 /\ UNCHANGED time_events
                 /\ Unregister(o) => ret' = <<"unregister", o, "True">>]_vars

\* a dispatcher with a timeout entry was unregistered; another descriptor
\* keeps its registration and its timeout entry, and a job is queued
C5_Witness ==
    /\ ret = <<"unregister", 1, "True">>
    /\ 1 \notin DOMAIN registered_dispatchers
    /\ 2 \in DOMAIN registered_dispatchers
    /\ fds_with_timeout = << <<1, 2>> >>
    /\ time_events # <<>>

\* an unregister of an unknown descriptor failed and changed nothing
C5_FailWitness ==
    /\ ret[1] = "unregister"
    /\ ret[3] \in {"False", "IOError"}
    /\ DOMAIN registered_dispatchers # {}
EventKinds == {"expt", "read", "write", "close"}

\* C6: when a callback of a readiness event raises an error that is no
\* loop-termination signal, the error is routed to the dispatcher's error
\* callback, whose default unregisters and closes the dispatcher: no
\* exception leaves loop(), the dispatcher is closed and its descriptor is
\* no longer registered, every other registered dispatcher stays registered,
\* and the step goes on.
C6_ErrorIsolated ==
    [][(pc = "raise" /\ cb \in EventKinds /\ exc # "ExitNow") =>
          /\ pc' = "events"
          /\ loop_exc' = "none"
          /\ closed' = {disp_obj}
          /\ fileno(disp_obj) \notin DOMAIN registered_dispatchers'
          /\ \A fd \in DOMAIN registered_dispatchers :
                registered_dispatchers[fd] # disp_obj =>
                    /\ fd \in DOMAIN registered_dispatchers'
                    /\ registered_dispatchers'[fd] = registered_dispatchers[fd]]_vars

\* C7: an error that is no loop-termination signal, raised by a timeout
\* callback in a pure-timeout step, does not leave loop(): the step goes on
\* with the remaining timeouts and the jobs.
C7_TimeoutErrorCaught ==
    [][(pc = "raise" /\ cb = "timeout" /\ exc # "ExitNow") =>
          /\ pc' \in {"timeouts", "jobs"}
          /\ loop_exc' = "none"
          /\ UNCHANGED time_events]_vars

\* C8: a loop-termination signal raised by a callback of a readiness event
\* leaves loop(): the error callback is not run for it (nothing is
\* unregistered or closed) and the rest of the batch is dropped, no further
\* callback being invoked in that step.
C8_SignalPropagates ==
    [][(pc = "raise" /\ cb \in EventKinds /\ exc = "ExitNow") =>
          /\ pc' = "idle"
          /\ loop_exc' = "ExitNow"
          /\ closed' = {}
          /\ result' = <<>>
          /\ cb' = NoCb
          /\ UNCHANGED <<registered_dispatchers, monitored_events,
                         fds_with_timeout, pollster, time_events>>]_vars

\* the read callback of a pair raised the signal while the write bit of the
\* pair is set and another pair of the batch is waiting
C8_Witness ==
    /\ pc = "raise"
    /\ exc = "ExitNow"
    /\ cb = "read"
    /\ flags \cap event_out_mask # {}
    /\ result # <<>>

\* the signal has left loop() and both dispatchers are registered
C8_Propagated ==
    /\ pc = "idle"
    /\ loop_exc = "ExitNow"
    /\ DOMAIN registered_dispatchers = Fds

Rank(k) ==
    CASE k = "expt" -> 1 [] k = "read" -> 2 [] k = "write" -> 3 [] OTHER -> 4

\* C9: for one ready pair the callbacks are invoked in the order expt, read,
\* write, close, each at most once and only for a bit the pair's flags hold;
\* as long as the descriptor is registered no set bit is skipped; and the
\* pairs are taken in the order of poll's batch.
C9_Order ==
    /\ \A i \in 1..Len(fired) :
          /\ StageBit(Rank(fired[i]), flags)
          /\ \A j \in 1..Len(fired) : i < j => Rank(fired[i]) < Rank(fired[j])
    /\ (pc = "events" /\ stage \in 1..5
            /\ fd_var \in DOMAIN registered_dispatchers) =>
          \A k \in 1..(stage - 1) :
              StageBit(k, flags) =>
                  \E i \in 1..Len(fired) : fired[i] = StageKind(k)
    /\ (pc = "cb" /\ cb \in EventKinds) =>
          /\ fired # <<>>
          /\ fired[Len(fired)] = cb

\* the four callbacks of one pair were invoked, one after the other
C9_Witness ==
    /\ fired = <<"expt", "read", "write", "close">>
    /\ pc = "cb"

\* C10: every callback of a readiness event is invoked on a dispatcher that
\* is registered at that moment: once a callback has unregistered the
\* dispatcher of the pair, that dispatcher gets no further callback for the
\* remaining bits.
C10_CallbackOnRegistered ==
    [][(pc = "events" /\ pc' = "cb") =>
          /\ fd_var \in DOMAIN registered_dispatchers
          /\ registered_dispatchers[fd_var] = disp_obj]_vars

\* C11: when a pair of the batch is reached whose dispatcher an earlier
\* callback of the step has unregistered, the pair is skipped: no callback is
\* invoked for it, no exception leaves loop(), and the step goes on with the
\* remaining pairs.
C11_UnregisteredPairSkipped ==
    [][(pc = "events" /\ stage = 0 /\ result # <<>>
            /\ Head(result)[1] \notin DOMAIN registered_dispatchers) =>
          /\ pc' \in {"events", "loop"}
          /\ loop_exc' = "none"
          /\ cb' = NoCb
          /\ UNCHANGED <<registered_dispatchers, monitored_events,
                         fds_with_timeout, pollster>>]_vars

\* C12: when the callbacks of a descriptor's events or its timeout callback
\* are over and the descriptor is registered, the mask is derived again: if
\* it differs from monitored_events[fd], modify() is called once, with the
\* new mask, and monitored_events[fd] becomes that mask; if it does not
\* differ, modify() is not called and the watch set stays as it is.
C12_MaskRederived ==
    [][(pc \in {"events", "timeouts"} /\ stage = 5
            /\ fd_var \in DOMAIN registered_dispatchers) =>
          /\ fd_var \in DOMAIN monitored_events'
          /\ \E a \in Interests :
                monitored_events'[fd_var] = derive_flags(a[1], a[2])
          /\ IF monitored_events'[fd_var] # monitored_events[fd_var]
             THEN /\ modify_calls' = << <<fd_var, monitored_events'[fd_var]>> >>
                  /\ pollster' = Put(pollster, fd_var, monitored_events'[fd_var])
             ELSE /\ modify_calls' = <<>>
                  /\ pollster' = pollster
          /\ \A fd \in DOMAIN monitored_events \ {fd_var} :
                /\ fd \in DOMAIN monitored_events'
                /\ monitored_events'[fd] = monitored_events[fd]]_vars

\* after a timeout callback the mask of the descriptor changed and modify()
\* was called with the new mask
C12_Witness ==
    /\ pc = "timeouts"
    /\ Len(modify_calls) = 1
    /\ modify_calls[1][2] # {}
    /\ monitored_events[modify_calls[1][1]] = modify_calls[1][2]

\* C13: in every state the multiplexer watches exactly the registered
\* descriptors, each with the mask monitored_events holds for it.
C13_MonitoredMatchesMultiplexer ==
    /\ DOMAIN pollster = DOMAIN registered_dispatchers
    /\ \A fd \in DOMAIN registered_dispatchers :
          /\ fd \in DOMAIN monitored_events
          /\ monitored_events[fd] = pollster[fd]

\* two descriptors are watched and the mask of one has just been modified
C13_Witness ==
    /\ DOMAIN pollster = Fds
    /\ Len(modify_calls) = 1
    /\ pollster[1] # pollster[2]

\* C20: add_scheduled_job succeeds exactly when the job's schedule() answers
\* an instant in the future, and then appends the job with that instant to
\* time_events; otherwise it fails and time_events stays as it is.
C20_AddJobNeedsFutureInstant ==
    [][\A j \in Jobs :
          AddScheduledJob(j) =>
            IF ret'[3] = "True"
            THEN \E t \in TimeoutAnswers :
                    /\ t > now
                    /\ time_events' = Append(time_events, <<t, j>>)
            ELSE time_events' = time_events]_vars

\* the instants of the entries of a list
InstantsOf(s) == {s[i][1] : i \in 1..Len(s)}
Min(S) == CHOOSE x \in S : \A y \in S : x <= y
\* how often x occurs in the sequence q
Count(q, x) == Cardinality({i \in 1..Len(q) : q[i] = x})
\* how many entries of a list belong to x
NumEntries(s, x) == Cardinality({i \in 1..Len(s) : s[i][2] = x})

\* C14: at the start of a step the argument of poll is -1 (block) when
\* fds_with_timeout and time_events are both empty, 0 when the earliest
\* instant of the two lists is at or before now, and otherwise that earliest
\* instant minus now (in the unit of the multiplexer).
C14_PollTimeout ==
    pc = "loop" =>
        LET all == InstantsOf(fds_with_timeout) \cup InstantsOf(time_events)
        IN  poll_argument =
                IF all = {} THEN -1
                ELSE IF Min(all) <= now THEN 0
                ELSE (Min(all) - now) * poll_unit

\* three fd timeouts that are not in order and a job, the earliest instant
\* being a later entry of fds_with_timeout, one unit ahead
C14_Witness ==
    /\ pc = "loop"
    /\ Len(fds_with_timeout) = 3
    /\ fds_with_timeout[1][1] > fds_with_timeout[2][1]
    /\ time_events # <<>>
    /\ time_events[1][1] > fds_with_timeout[2][1]
    /\ fds_with_timeout[2][1] = now + 1

\* C15: when the timeout loop of a pure-timeout step is over, every
\* descriptor whose entry had elapsed when the step read the clock has had
\* its timeout callback invoked once in the step.
C15_ElapsedTimeoutsFired ==
    [][(pc = "timeouts" /\ pc' = "jobs") =>
          \A k \in 1..Len(due[1]) :
              Count(served, <<"timeout", due[1][k]>>) = 1]_vars

\* C16: when the job loop of a pure-timeout step is over, every job whose
\* entry had elapsed when the step read the clock has been fired once in the
\* step; and after a firing the schedule is queried and the job is appended
\* again exactly when the answer is an instant.
C16_ElapsedJobsFired ==
    [][/\ (pc = "jobs" /\ stage = 0 /\ pc' = "loop") =>
             \A k \in 1..Len(due[2]) :
                 Count(served, <<"job", due[2][k]>>) = 1
       /\ (pc = "jobs" /\ stage = 5) =>
             \E t \in TimerAnswers :
                 time_events' = IF t # 0
                                THEN Append(time_events, <<t, disp_obj>>)
                                ELSE time_events]_vars

\* C17: an entry of a job leaves time_events only in the step that invokes
\* the callback of that job.
C17_JobLeavesOnlyFired ==
    [][\A j \in TimerJobs :
          NumEntries(time_events', j) < NumEntries(time_events, j) =>
              /\ pc' = "cb"
              /\ cb' = "job"
              /\ disp_obj' = j]_vars

\* the entry at position k of the list s comes first: no other entry has an
\* earlier instant, and none with the same instant was inserted before it
FiresFirst(s, k) ==
    \A i \in 1..Len(s) :
        i # k => /\ ~(s[i][1] < s[k][1])
                 /\ ~(s[i][1] = s[k][1] /\ i < k)

\* C18: the entry whose timeout or job callback is invoked is, among the
\* entries of its list, one with the earliest instant, and among those the
\* one inserted first.
C18_FiredInOrder ==
    [][/\ (pc = "timeouts" /\ pc' = "cb") => FiresFirst(fds_with_timeout, idx + 1)
       /\ (pc = "jobs" /\ pc' = "cb") => FiresFirst(time_events, idx + 1)]_vars

\* C19: between the steps, a job has been fired as often as its schedule()
\* has answered an instant, less its entry in time_events if it has one: a
\* job that answered N instants and then None was fired N times and is absent.
C19_FiredAsOftenAsScheduled ==
    pc \in {"idle", "loop"} =>
        \A j \in TimerJobs :
            /\ NumEntries(time_events, j) <= 1
            /\ sched[j][1] = sched[j][2] + NumEntries(time_events, j)

\* ---- C21: loop() goes from its while test into a step (a poll call) exactly
\* when the stop flag is unset and a dispatcher or a job is present, and
\* returns, without polling and without touching the reactor, exactly
\* otherwise: at once when nothing was ever registered, and at the first
\* while test after the last dispatcher and the last job have gone.
C21_LoopRunsWhileWork ==
    [][(pc = "loop" /\ pc' # "loop") =>
          IF (~stop_flag) /\ (DOMAIN registered_dispatchers # {}
                               \/ time_events # <<>>)
          THEN pc' \in {"events", "timeouts"}
          ELSE /\ pc' = "idle"
               /\ loop_exc' = "none"
               /\ UNCHANGED <<reactor, time_events, now>>]_vars

\* the last action of a step is pending, the step's callbacks have
\* unregistered every dispatcher, no job is left and the flag is unset
C21_Witness ==
    /\ pc = "events"
    /\ stage = 5
    /\ fired # <<>>
    /\ result = <<>>
    /\ DOMAIN registered_dispatchers = {}
    /\ time_events = <<>>
    /\ ~stop_flag

\* the thread is inside a step of loop()
InStep == pc \in {"events", "timeouts", "jobs", "cb"}

\* the actions by which a step goes on
StepActions ==
    \/ ProcessFiredEvents
    \/ DispatchEvent
    \/ UpdateAssociatedEvents
    \/ TimeoutIter
    \/ JobIter
    \/ JobReschedule
    \/ CbReturn

\* ---- C22: the stop flag, once set, stays set; set_stop_flag() leaves the
\* thread where it is, so that the step in progress goes on to its end; and
\* with the flag set loop() starts no step from its while test: it returns.
C22_StopFlagSticks ==
    [][/\ stop_flag => stop_flag'
       /\ (stop_flag' /\ ~stop_flag) =>
              UNCHANGED <<pc, position, cb, fired, reactor, time_events>>
       /\ (stop_flag /\ InStep) => ENABLED StepActions
       /\ (stop_flag /\ pc = "loop" /\ pc' # "loop") =>
              (pc' = "idle" /\ UNCHANGED <<reactor, time_events, now>>)]_vars

\* the flag was set by a callback while dispatchers are registered, and the
\* step went on: it is at its last action
C22_Witness ==
    /\ stop_flag
    /\ pc = "events"
    /\ stage = 5
    /\ fired # <<>>
    /\ DOMAIN registered_dispatchers # {}

\* ---- C29: the default error callback invokes the default close callback
\* with the reactor; the default close callback unregisters the dispatcher
\* first (the error of a failed unregister leaves it before close() is
\* called) and closes the descriptor after; once it has returned, the
\* descriptor is in none of the reactor's collections and the multiplexer
\* does not watch it.  Without a reactor it closes and leaves the reactor as
\* it is.
C29_DefaultErrorAndClose ==
    [][/\ (HandleError \/ CbHandleClose) =>
            IF unregister_result(disp_obj) = "IOError"
            THEN closed' = {} /\ UNCHANGED reactor
            ELSE /\ closed' = {disp_obj}
                 /\ fileno(disp_obj) \notin DOMAIN registered_dispatchers'
                 /\ fileno(disp_obj) \notin DOMAIN monitored_events'
                 /\ fileno(disp_obj) \notin DOMAIN pollster'
                 /\ EntriesOf(fds_with_timeout', fileno(disp_obj)) = <<>>
       /\ CbHandleCloseNoReactor =>
            closed' = {disp_obj} /\ UNCHANGED reactor]_vars

\* the error callback has returned for a dispatcher whose callback raised:
\* the dispatcher is closed and its descriptor is gone, another dispatcher
\* keeps its registration
C29_Witness ==
    /\ pc = "events"
    /\ stage = 5
    /\ fired # <<>>
    /\ closed = {disp_obj}
    /\ fd_var \notin DOMAIN registered_dispatchers
    /\ fd_var \notin DOMAIN pollster
    /\ DOMAIN registered_dispatchers # {}

\* ---- C30: when poll is interrupted (EINTR), loop() does not raise and the
\* step goes on as after a poll that returned no pair: it calls no event
\* callback, and the timeout and job callbacks it calls are those of entries
\* whose instant has elapsed; every other error of poll leaves loop().
C30_InterruptedPollIsNoEvent ==
    [][/\ PollRaises("EINTR") =>
            /\ pc' = "timeouts"
            /\ result' = <<>>
            /\ loop_exc' = "none"
       /\ \A err \in PollErrnos \ {"EINTR"} :
            PollRaises(err) => (pc' = "idle" /\ loop_exc' = err)
       /\ (pc' = "events" /\ pc \notin {"events", "cb", "raise"}) =>
            (pc = "loop" /\ result' # <<>>)
       /\ (pc' = "cb" /\ pc # "cb" /\ cb' \in EventKinds) => pc = "events"
       /\ (pc = "timeouts" /\ pc' = "cb") =>
            (cb' = "timeout" /\ fds_with_timeout[idx + 1][1] <= now)
       /\ (pc = "jobs" /\ pc' = "cb") =>
            (cb' = "job" /\ time_events[idx + 1][1] <= now)]_vars

\* poll came back with no pair before the nearest instant had elapsed
C30_Witness ==
    /\ pc = "timeouts"
    /\ idx = 0
    /\ stage = 0
    /\ fds_with_timeout # <<>>
    /\ \A i \in 1..Len(fds_with_timeout) : fds_with_timeout[i][1] > now
    /\ \A i \in 1..Len(time_events) : time_events[i][1] > now

\* ---- C23: every query the reactor makes of a TCP client that is not
\* connected - by register() or by __update_associated_events() - leaves the
\* client watched for writing alone and with the connect deadline as its
\* timeout (none when no deadline was given), whatever the user's readable(),
\* writable() and timeout() answer.
C23_ConnectingForcesInterests ==
    [][\A o \in SocketObjs :
          (/\ kind_of(o) = "client"
           /\ ~connected
           /\ \/ Register(o) /\ fileno(o) \notin DOMAIN registered_dispatchers
              \/ /\ UpdateAssociatedEvents
                 /\ fileno(o) \in DOMAIN registered_dispatchers
                 /\ fd_var = fileno(o)
                 /\ registered_dispatchers[fd_var] = o) =>
            /\ monitored_events'[fileno(o)] = event_out_mask
            /\ pollster'[fileno(o)] = event_out_mask
            /\ last_timeout'[fileno(o)] = connect_timeout_at
            /\ EntriesOf(fds_with_timeout', fileno(o)) =
                  IF connect_timeout_at = 0 THEN <<>>
                  ELSE << <<connect_timeout_at, fileno(o)>> >>]_vars

\* the reactor has queried again a registered client that an event found
\* not connected and that has a deadline
C23_Witness ==
    /\ pc = "events"
    /\ stage = 0
    /\ result # <<>>
    /\ 1 \in DOMAIN registered_dispatchers
    /\ ~connected
    /\ connect_timeout_at # 0
    /\ monitored_events[1] = event_out_mask
    /\ fds_with_timeout = << <<connect_timeout_at, 1>> >>

\* ---- C24: a write event that finds a client not connected and the
\* socket's pending error zero makes the client connected without raising;
\* and each query the reactor makes of a connected client is the query with
\* answers of the user's readable(), writable() and timeout().
C24_WriteEventConnects ==
    [][/\ ClientHandleWriteEvent("0") =>
            (connected' /\ pc' = "events" /\ exc' = "none")
       /\ (/\ UpdateAssociatedEvents
           /\ fd_var \in DOMAIN registered_dispatchers
           /\ kind_of(registered_dispatchers[fd_var]) = "client"
           /\ connected) =>
            \E a \in Interests, t \in TimeoutAnswers :
               /\ monitored_events'[fd_var] = derive_flags(a[1], a[2])
               /\ pollster'[fd_var] = derive_flags(a[1], a[2])
               /\ last_timeout'[fd_var] = t
               /\ EntriesOf(fds_with_timeout', fd_var) =
                     IF t = 0 THEN <<>> ELSE << <<t, fd_var>> >>]_vars

\* the write event has connected the client, which is still watched with the
\* mask forced on it; the query that follows is pending
C24_Witness ==
    /\ pc = "events"
    /\ stage = 5
    /\ fired = <<"write">>
    /\ kind_of(disp_obj) = "client"
    /\ connected
    /\ fd_var \in DOMAIN registered_dispatchers
    /\ monitored_events[fd_var] = event_out_mask

\* ---- C25: a write event that finds a client not connected and the
\* socket's pending error non-zero raises socket.error and leaves the client
\* not connected; the reactor hands the error to the client's error callback,
\* after which the client is unregistered and closed, and loop() goes on.
C25_ConnectFailureClosesClient ==
    [][/\ \A err \in SoErrors \ {"0"} :
            ClientHandleWriteEvent(err) =>
              (~connected' /\ pc' = "raise" /\ exc' = "socket.error")
       /\ (/\ pc = "raise"
           /\ exc = "socket.error"
           /\ kind_of(disp_obj) = "client") =>
            /\ pc' = "events"
            /\ loop_exc' = "none"
            /\ closed' = {disp_obj}
            /\ ~connected'
            /\ fileno(disp_obj) \notin DOMAIN registered_dispatchers'
            /\ fileno(disp_obj) \notin DOMAIN monitored_events'
            /\ fileno(disp_obj) \notin DOMAIN pollster'
            /\ EntriesOf(fds_with_timeout', fileno(disp_obj)) = <<>>]_vars

\* the error callback has returned after the failed connection of a client
\* that had a deadline
C25_Witness ==
    /\ pc = "events"
    /\ stage = 5
    /\ fired = <<"write">>
    /\ kind_of(disp_obj) = "client"
    /\ closed = {disp_obj}
    /\ ~connected
    /\ connect_timeout_at # 0
    /\ fd_var \notin DOMAIN registered_dispatchers

\* ---- C26: once the reactor has dispatched the timeout of a client whose
\* connect deadline has elapsed before the connection was made, the client
\* is not registered any more as a client that is not connected with that
\* same deadline as its timeout.
C26_ConnectTimeoutAborts ==
    [][(/\ UpdateAssociatedEvents
        /\ pc = "timeouts"
        /\ kind_of(disp_obj) = "client"
        /\ ~connected
        /\ connect_timeout_at # 0
        /\ connect_timeout_at <= now) =>
          ~(/\ fd_var \in DOMAIN registered_dispatchers'
            /\ ~connected'
            /\ EntriesOf(fds_with_timeout', fd_var) =
                  << <<connect_timeout_at, fd_var>> >>)]_vars

\* ---- C27: every query the reactor makes of a TCP server leaves it watched
\* for reading exactly when it is accepting, and the mask a server is
\* registered with never contains the write bit.
C27_ServerInterests ==
    [][/\ \A o \in SocketObjs :
            (/\ kind_of(o) = "server"
             /\ \/ Register(o) /\ fileno(o) \notin DOMAIN registered_dispatchers
                \/ /\ UpdateAssociatedEvents
                   /\ fileno(o) \in DOMAIN registered_dispatchers
                   /\ fd_var = fileno(o)
                   /\ registered_dispatchers[fd_var] = o) =>
              /\ monitored_events'[fileno(o)] = derive_flags(accepting, FALSE)
              /\ pollster'[fileno(o)] = derive_flags(accepting, FALSE)
              /\ (monitored_events'[fileno(o)] \cap event_in_mask # {})
                    <=> accepting
       /\ \A fd \in DOMAIN registered_dispatchers' :
            kind_of(registered_dispatchers'[fd]) = "server" =>
              /\ monitored_events'[fd] \cap event_out_mask = {}
              /\ pollster'[fd] \cap event_out_mask = {}]_vars

\* an accepting server that has accepted a connection is watched for
\* reading; the query that follows its callbacks is pending
C27_Witness ==
    /\ pc = "events"
    /\ stage = 5
    /\ kind_of(disp_obj) = "server"
    /\ accepting
    /\ prepared > 0
    /\ fd_var \in DOMAIN registered_dispatchers
    /\ monitored_events[fd_var] = derive_flags(TRUE, FALSE)

\* ---- C28: on a read event of the server accept() is called once; when it
\* would block or the connection was aborted, nothing is raised,
\* prepare_serving_client() is not called and the server stays registered
\* and accepting; a connection accepted is handed to
\* prepare_serving_client() once; every other error of accept() leaves
\* handle_read() as that error.
C28_AcceptOutcomes ==
    [][\A outcome \in AcceptOutcomes \ {"TypeError"} :
          ServerHandleRead(outcome) =>
            CASE outcome = "ok" ->
                    (prepared' = prepared + 1 /\ pc' = "events")
              [] outcome \in {"EWOULDBLOCK", "ECONNABORTED"} ->
                    /\ prepared' = prepared
                    /\ pc' = "events"
                    /\ exc' = "none"
                    /\ accepting'
                    /\ UNCHANGED reactor
              [] OTHER ->
                    /\ prepared' = prepared
                    /\ pc' = "raise"
                    /\ exc' = outcome]_vars


\* ---- C38: a TCP client is connected only after a connect has been issued
\* on it: a client on which connect() was never called does not become
\* connected by a write event.
C38_ConnectedOnlyAfterConnect ==
    connected => peer_addr # "None"

C35_NoTimerFiresEarly ==
    [][/\ (TimerTimeoutIter /\ pc' = "cb") =>
            /\ cb' = "timeout"
            /\ fds_with_timeout[idx + 1][2] = fd_var'
            /\ fds_with_timeout[idx + 1][1] <= now'
            /\ last_timeout[fd_var'] = fds_with_timeout[idx + 1][1]
            /\ disp_obj' = registered_dispatchers[fd_var']
       /\ (TimerJobIter /\ pc' = "cb") =>
            /\ cb' = "job"
            /\ time_events[idx + 1][2] = disp_obj'
            /\ time_events[idx + 1][1] <= now'
            /\ time_events[idx + 1][1] # 0]_vars

\* a job's callback runs for the first time in a step that read the clock
\* at 2 and has invoked a timeout callback before, while an entry of
\* instant 2 is in the list of timeouts
C35_Witness ==
    /\ pc = "cb"
    /\ cb = "job"
    /\ now = 2
    /\ Len(served) >= 2
    /\ served[1][1] = "timeout"
    /\ \E i \in 1..Len(fds_with_timeout) : fds_with_timeout[i][1] = 2
    /\ sched[disp_obj][2] = 1

\* the callbacks of the class k ("timeout" or "job") invoked so far in the step
Firings(k) == Cardinality({i \in 1..Len(served) : served[i][1] = k})

\* what a thread inside a pure-timeout step can do next
TimerStepActions ==
    \/ TimerTimeoutIter
    \/ TimerCbReturn
    \/ TimerUpdateAssociatedEvents
    \/ TimerJobIter
    \/ TimerJobReschedule

\* the thread inside a pure-timeout step can always take its next step, and
\* each loop has made as many iterations as it has invoked callbacks
C40_StepProgresses ==
    /\ pc = "timeouts" => idx = Firings("timeout")
    /\ pc = "jobs" => idx = Firings("job")
    /\ pc \in {"timeouts", "jobs", "cb"} => ENABLED TimerStepActions

\* ---- C40: a pure-timeout step is bounded by the entries it began with.
\* Whatever instants timeout() and schedule() answer, the step has invoked
\* the timeout callback of a descriptor at most as often as the descriptor
\* had an elapsed entry in fds_with_timeout when the step read the clock,
\* and the callback of a job at most as often as the job had an elapsed
\* entry in time_events (an entry appended during the step is not fired in
\* it); and the thread inside the step can always take its next step.
C40_StepBounded ==
    /\ \A o \in TimerObjs :
          Count(served, <<"timeout", fileno(o)>>) <= Count(due[1], fileno(o))
    /\ \A j \in TimerJobs :
          Count(served, <<"job", j>>) <= Count(due[2], j)
    /\ C40_StepProgresses

\* ---- C37: the events poll reported for a descriptor are delivered to the
\* dispatcher that was registered under the descriptor when poll returned:
\* when the for loop reaches a pair of the batch and looks up the dispatcher
\* whose callbacks it is going to invoke for the pair, that dispatcher is
\* the one poll's answer was about.
C37_BatchGoesToPolledDispatcher ==
    [][(ProcessFiredEvents /\ pc' = "events" /\ stage' \in 1..4) =>
          disp_obj' = Head(result)[3]]_vars

\* --------------------------------------------------------------- the Logger
\* A Logger built with its default mask, and a main program that sets the
\* mask and logs; the levels given go one beyond both ends of the range.
EMERG == 0
ALERT == 1
CRIT == 2
ERR == 3
WARNING == 4
NOTICE == 5
INFO == 6
DEBUG == 7
LOG_LEVELS == {EMERG, ALERT, CRIT, ERR, WARNING, NOTICE, INFO, DEBUG}

LevelArgs == (EMERG - 1)..(DEBUG + 1)
MaskArgs == 0..(2 ^ (DEBUG + 1))

\* a & b of two non-negative integers
RECURSIVE bit_and(_, _)
bit_and(a, b) ==
    IF a = 0 \/ b = 0 THEN 0
    ELSE (a % 2) * (b % 2) + 2 * bit_and(a \div 2, b \div 2)

\* Logger.log_mask(level), for a level that is in __level_names
level_mask(level) == 2 ^ level

\* a mask of the one level given
mask_upto_level_only(level) == 2 ^ level

\* Logger.mask_upto(level), for a level that is in __level_names
mask_upto(level) == 2 ^ (level + 1) - 1

\* the test of set_log_mask() that raises ValueError
invalid_mask(new_mask) ==
    new_mask < mask_upto(EMERG) \/ new_mask > mask_upto(DEBUG)

LogInit ==
    /\ BaseInit
    /\ raise_exceptions
    /\ event_api = API_SELECT
    /\ log_mask = mask_upto(INFO)
    /\ min = None
    /\ max = None
    /\ total = 0
    /\ counter = 0
    /\ bound_list = <<>>
    /\ count_list = <<>>
    /\ added = <<>>

\* Logger.set_log_mask(new_mask)
SetLogMask(new_mask) ==
    /\ IF invalid_mask(new_mask)
       THEN /\ ret' = <<"set_log_mask", new_mask, "ValueError">>
            /\ UNCHANGED log_mask
       ELSE /\ log_mask' = new_mask
            /\ ret' = <<"set_log_mask", new_mask, "old_mask">>
    /\ UNCHANGED <<machine, histogram>>

\* Logger.set_max_level(max_level): mask_upto() raises for a level that is
\* not one, and set_log_mask() is called with its answer otherwise
SetMaxLevel(max_level) ==
    /\ IF max_level \notin LOG_LEVELS
       THEN /\ ret' = <<"set_max_level", max_level, "ValueError">>
            /\ UNCHANGED log_mask
       ELSE IF invalid_mask(mask_upto(max_level))
       THEN /\ ret' = <<"set_max_level", max_level, "ValueError">>
            /\ UNCHANGED log_mask
       ELSE /\ log_mask' = mask_upto(max_level)
            /\ ret' = <<"set_max_level", max_level, "old_mask">>
    /\ UNCHANGED <<machine, histogram>>

\* what Logger.log(level, msg) returns or raises: log_mask() raises for a
\* level that is not one, before anything is written
log(level) ==
    IF level \notin LOG_LEVELS THEN "ValueError"
    ELSE IF bit_and(level_mask(level), log_mask) # 0 THEN "True"
    ELSE "False"

\* Logger.log(level, msg), called by the main program
Log(level) ==
    /\ ret' = <<"log", level, log(level)>>
    /\ UNCHANGED <<machine, library>>

\* Logger.emerg(msg), alert(msg), ..., debug(msg): the method named after
\* level calls log(self.LEVEL, msg)
LogNamed(level) ==
    /\ ret' = <<"named", level, log(level)>>
    /\ UNCHANGED <<machine, library>>

LogNext ==
    \/ \E new_mask \in MaskArgs : SetLogMask(new_mask)
    \/ \E max_level \in LevelArgs : SetMaxLevel(max_level)
    \/ \E level \in LevelArgs : Log(level)
    \/ \E level \in LOG_LEVELS : LogNamed(level)

LogSpec == LogInit /\ [][LogNext]_vars

\* the mask m lets the messages of level l through
Lets(m, l) == (m \div (2 ^ l)) % 2 = 1

\* ---- C32: set_max_level(L) with a level L leaves a mask that lets through
\* the levels up to L and no other, and with such a mask log(l, msg) and the
\* method named after l return True when l <= L and False otherwise;
\* log(l, msg) and set_max_level(L) with an l or L that is not a level raise
\* ValueError and leave the mask as it was.
C32_MaxLevelFilters ==
    [][/\ \A L \in LOG_LEVELS :
            /\ SetMaxLevel(L) =>
                  /\ ret'[3] # "ValueError"
                  /\ \A l \in LOG_LEVELS : Lets(log_mask', l) <=> l <= L
            /\ (\A k \in LOG_LEVELS : Lets(log_mask, k) <=> k <= L) =>
                  \A l \in LOG_LEVELS :
                     /\ Log(l) =>
                          ret'[3] = IF l <= L THEN "True" ELSE "False"
                     /\ LogNamed(l) =>
                          ret'[3] = IF l <= L THEN "True" ELSE "False"
       /\ \A x \in LevelArgs \ LOG_LEVELS :
            /\ Log(x) => (ret'[3] = "ValueError" /\ log_mask' = log_mask)
            /\ SetMaxLevel(x) =>
                  (ret'[3] = "ValueError" /\ log_mask' = log_mask)]_vars

\* after set_max_level(WARNING), log(NOTICE, msg) has returned False
C32_Witness ==
    /\ \A k \in LOG_LEVELS : Lets(log_mask, k) <=> k <= WARNING
    /\ ret = <<"log", NOTICE, "False">>

\* after set_max_level(WARNING), a level that is none has been refused
C32_RefusedWitness ==
    /\ log_mask = mask_upto(WARNING)
    /\ ret = <<"log", DEBUG + 1, "ValueError">>

\* ------------------------------------------------------------ the Histogram
\* A Histogram built with one of three bounds, and a main program that adds
\* values: zero, values on and off the bounds of the buckets, values at and
\* beyond the last bound, and a negative one.
MaxAdds == 3

first_group == <<0, 1, 2, 3, 4, 5>>
basic_group == <<6, 7, 8, 9, 10, 12, 14, 16, 18, 20, 25, 30, 35, 40, 45, 50>>

HistBounds == {5, 50, 500}
HistValues == {0, 1, 5, 6, 11, 50, 51, 500}
Negative == 0 - 1

\* [10 * v for v in last_group]
TimesTen(group) == [i \in 1..Len(group) |-> 10 * group[i]]

\* the while loop of __init__; last_group is <<>> for None
RECURSIVE extend_bound_list(_, _, _)
extend_bound_list(bl, last_group, bound) ==
    IF bl[Len(bl)] < bound
    THEN LET group == IF last_group = <<>> THEN basic_group
                      ELSE TimesTen(last_group)
         IN  extend_bound_list(bl \o group, group, bound)
    ELSE bl

HistInit ==
    /\ BaseInit
    /\ raise_exceptions
    /\ event_api = API_SELECT
    /\ log_mask = None
    /\ min = None
    /\ max = None
    /\ total = 0
    /\ counter = 0
    /\ \E bound \in HistBounds :
          /\ bound_list = extend_bound_list(first_group, <<>>, bound)
          /\ count_list =
                [i \in 1..Len(extend_bound_list(first_group, <<>>, bound)) |-> 0]
    /\ added = <<>>

\* a bucket that takes its upper bound too
in_bucket_closed(bl, i, v) == bl[i + 1] <= v /\ v <= bl[i + 2]

\* "self.__bound_list[idx] <= v < self.__bound_list[idx + 1]" (the lists of
\* the program count from 0)
in_bucket(bl, i, v) == bl[i + 1] <= v /\ v < bl[i + 2]

\* the for loop of add() from the index i on: the index at which it ends
RECURSIVE bucket_loop(_, _, _)
bucket_loop(bl, i, v) ==
    IF i = Len(bl) - 1 THEN i
    ELSE IF in_bucket(bl, i, v) THEN i
    ELSE bucket_loop(bl, i + 1, v)

\* "not x" of a field that is None or a number
Not(x) == x = None \/ x = 0

\* Histogram.add(v)
Add(v) ==
    /\ Len(added) < MaxAdds
    /\ IF v < 0
       THEN /\ ret' = <<"add: ValueError", v, None>>
            /\ UNCHANGED histogram
       ELSE /\ min' = IF Not(min) \/ v < min THEN v ELSE min
            /\ max' = IF Not(max) \/ v > max THEN v ELSE max
            /\ total' = total + v
            /\ counter' = counter + 1
            /\ count_list' =
                  [count_list EXCEPT ![bucket_loop(bound_list, 0, v) + 1] = @ + 1]
            /\ ret' = <<"add", v, bucket_loop(bound_list, 0, v)>>
            /\ added' = Append(added, v)
            /\ UNCHANGED bound_list
    /\ UNCHANGED <<machine, log_mask>>

\* Histogram.average(): the quotient total / counter as <<numerator,
\* denominator>>
average == IF counter # 0 THEN <<total, counter>> ELSE <<0, 1>>

HistNext ==
    \E v \in HistValues \cup {Negative} : Add(v)

HistSpec == HistInit /\ [][HistNext]_vars

RECURSIVE SumOf(_)
SumOf(s) == IF s = <<>> THEN 0 ELSE Head(s) + SumOf(Tail(s))
ValuesOf(s) == {s[i] : i \in 1..Len(s)}
Largest(S) == CHOOSE x \in S : \A y \in S : y <= x

\* ---- C33: once values have been added, min() is the smallest of them,
\* max() the largest, total() their sum, and average() the sum divided by
\* their number.
C33_Statistics ==
    added # <<>> =>
        /\ min = Min(ValuesOf(added))
        /\ max = Largest(ValuesOf(added))
        /\ total = SumOf(added)
        /\ average[1] * Len(added) = SumOf(added) * average[2]

\* max(), total() and average() of the values added
C33_ButMin ==
    added # <<>> =>
        /\ max = Largest(ValuesOf(added))
        /\ total = SumOf(added)
        /\ average[1] * Len(added) = SumOf(added) * average[2]

\* the value v is in the bucket of index i (from 0) of the bound list bl
Contains(bl, i, v) ==
    IF i = Len(bl) - 1 THEN bl[Len(bl)] <= v
    ELSE bl[i + 1] <= v /\ v < bl[i + 2]

\* ---- C34: add(v) of a value that is not negative returns the index of the
\* one bucket that contains v (the last index for a value at or above the
\* last bound), the count of that bucket grows by one and no other count
\* changes; and the counts sum to the number of values added.
C34_AddFillsTheBucket ==
    [][\A v \in HistValues :
          Add(v) =>
            /\ ret'[3] \in 0..(Len(bound_list) - 1)
            /\ Contains(bound_list, ret'[3], v)
            /\ \A k \in 0..(Len(bound_list) - 1) :
                  Contains(bound_list, k, v) => k = ret'[3]
            /\ \A k \in 0..(Len(bound_list) - 1) :
                  count_list'[k + 1] =
                     IF k = ret'[3] THEN count_list[k + 1] + 1
                     ELSE count_list[k + 1]
            /\ SumOf(count_list') = Len(added')]_vars

\* a histogram of 38 buckets has been given a value on a bound, zero, and a
\* value beyond the last bound, which went to the last bucket
C34_Witness ==
    /\ Len(bound_list) = 38
    /\ added = <<5, 0, 51>> \/ added = <<50, 0, 500>>
    /\ ret[1] = "add"
    /\ ret[3] = 37 \/ ret[3] = 21
    /\ count_list[1] = 1

\* ------------------------------------------- the multiplexer built on select
\* A _SelectApiWrapper of its own, called by a main program: pollster is its
\* _monitored, and result the list returned by the latest call when that was
\* a poll() (the caller keeps no older list).
SelectMasks == SUBSET {SELECT_IN, SELECT_OUT, SELECT_ERR}

SelectInit ==
    /\ Init
    /\ raise_exceptions
    /\ event_api = API_SELECT

\* _SelectApiWrapper.register(fd, eventmask)
SelRegister(fd, eventmask) ==
    /\ pollster' = pollster_register(pollster, fd, eventmask)
    /\ ret' = <<"register", fd, "None">>
    /\ result' = <<>>
    /\ UNCHANGED <<registered_dispatchers, monitored_events, fds_with_timeout,
                   last_timeout, time_events, config, stop_flag, now, closed,
                   pc, idx, stage, flags, fd_var, disp_obj, exc, cb, fired,
                   timers_view, modify_calls, loop_exc, sockets, library>>

\* _SelectApiWrapper.unregister(fd): "del self._monitored[fd]" raises
\* KeyError for a descriptor that is not a key
SelUnregister(fd) ==
    /\ IF fd \in DOMAIN pollster
       THEN /\ pollster' = pollster_unregister(pollster, fd)
            /\ ret' = <<"unregister", fd, "None">>
       ELSE /\ ret' = <<"unregister", fd, "KeyError">>
            /\ UNCHANGED pollster
    /\ result' = <<>>
    /\ UNCHANGED <<registered_dispatchers, monitored_events, fds_with_timeout,
                   last_timeout, time_events, config, stop_flag, now, closed,
                   pc, idx, stage, flags, fd_var, disp_obj, exc, cb, fired,
                   timers_view, modify_calls, loop_exc, sockets, library>>

\* _SelectApiWrapper.modify(fd, eventmask)
SelModify(fd, eventmask) ==
    /\ IF fd \notin DOMAIN pollster
       THEN /\ ret' = <<"modify", fd, "IOError">>
            /\ UNCHANGED pollster
       ELSE /\ pollster' = pollster_modify(pollster, fd, eventmask)
            /\ ret' = <<"modify", fd, "None">>
    /\ result' = <<>>
    /\ UNCHANGED <<registered_dispatchers, monitored_events, fds_with_timeout,
                   last_timeout, time_events, config, stop_flag, now, closed,
                   pc, idx, stage, flags, fd_var, disp_obj, exc, cb, fired,
                   timers_view, modify_calls, loop_exc, sockets, library>>

\* the descriptors poll() hands to select.select() in the list of the bit
select_list(bit) == {fd \in DOMAIN pollster : bit \in pollster[fd]}

\* a mapping that reports every bit for a descriptor that is ready
select_mapping_every_bit(rd, wr, exp) ==
    [fd \in rd \cup wr \cup exp |-> {SELECT_IN, SELECT_OUT, SELECT_ERR}]

\* the dict poll() builds from the three lists select.select() returned
select_mapping(rd, wr, exp) ==
    [fd \in rd \cup wr \cup exp |->
        (IF fd \in rd THEN {SELECT_IN} ELSE {})
        \cup (IF fd \in wr THEN {SELECT_OUT} ELSE {})
        \cup (IF fd \in exp THEN {SELECT_ERR} ELSE {})]

\* the lists of the items of a dict, in any order
ItemLists(mapping) ==
    {[i \in 1..Cardinality(DOMAIN mapping) |-> <<f[i], mapping[f[i]]>>] :
        f \in {g \in [1..Cardinality(DOMAIN mapping) -> DOMAIN mapping] :
                  \A i, j \in 1..Cardinality(DOMAIN mapping) :
                      i # j => g[i] # g[j]}}

\* _SelectApiWrapper.poll(timeout): select.select() returns of each list the
\* descriptors that are ready
SelPoll ==
    /\ \E rd \in SUBSET select_list(SELECT_IN),
          wr \in SUBSET select_list(SELECT_OUT),
          exp \in SUBSET select_list(SELECT_ERR) :
          result' \in ItemLists(select_mapping(rd, wr, exp))
    /\ ret' = <<"poll", 0, "list">>
    /\ UNCHANGED <<reactor, time_events, config, stop_flag, now, closed, pc,
                   idx, stage, flags, fd_var, disp_obj, exc, cb, fired,
                   timers_view, modify_calls, loop_exc, sockets, library>>

SelectNext ==
    \/ \E fd \in Fds, eventmask \in SelectMasks : SelRegister(fd, eventmask)
    \/ \E fd \in Fds : SelUnregister(fd)
    \/ \E fd \in Fds, eventmask \in SelectMasks : SelModify(fd, eventmask)
    \/ SelPoll

SelectSpec == SelectInit /\ [][SelectNext]_vars

\* ---- C31: the multiplexer built on select keeps one mask per descriptor.
\* register() never fails and leaves the descriptor with the mask given,
\* whether it was registered or not, and the other descriptors as they were;
\* unregister() and modify() of a descriptor that is not registered raise
\* and leave the watch set as it was; and the list poll() returns names a
\* descriptor at most once, names registered descriptors only, and gives
\* each a mask that is not empty and has no bit outside the mask the
\* descriptor is registered with.
C31_SelectWrapperContract ==
    [][/\ \A fd \in Fds :
            /\ \A m \in SelectMasks :
                  SelRegister(fd, m) =>
                     /\ ret'[3] = "None"
                     /\ DOMAIN pollster' = DOMAIN pollster \cup {fd}
                     /\ pollster'[fd] = m
                     /\ \A g \in DOMAIN pollster \ {fd} :
                           pollster'[g] = pollster[g]
            /\ fd \notin DOMAIN pollster =>
                  /\ SelUnregister(fd) =>
                        (ret'[3] = "KeyError" /\ pollster' = pollster)
                  /\ \A m \in SelectMasks :
                        SelModify(fd, m) =>
                           (ret'[3] = "IOError" /\ pollster' = pollster)
       /\ SelPoll =>
            /\ pollster' = pollster
            /\ \A i, j \in 1..Len(result') :
                  i # j => result'[i][1] # result'[j][1]
            /\ \A i \in 1..Len(result') :
                  /\ result'[i][1] \in DOMAIN pollster
                  /\ result'[i][2] # {}
                  /\ result'[i][2] \subseteq pollster[result'[i][1]]]_vars

\* poll() has returned both descriptors, the second before the first, one
\* of them with fewer bits than it is registered with
C31_Witness ==
    /\ ret[1] = "poll"
    /\ Len(result) = 2
    /\ result[1][1] = 2
    /\ result[2] = <<1, {SELECT_OUT}>>
    /\ pollster[1] = {SELECT_IN, SELECT_OUT}

\* ------------------------------------------------- a thread that keeps going
\* A specification with fairness: the program of Spec with one dispatcher
\* and the jobs, whose callbacks return.  The thread inside loop() takes its
\* next step whenever it has one (loop() is sequential code and the
\* callbacks return); nothing is assumed of the main program or of what poll
\* reports.
ReadyObjs == {1}

ReadyThread ==
    \/ LoopReturn
    \/ LoopStep
    \/ ProcessFiredEvents
    \/ DispatchEvent
    \/ UpdateAssociatedEvents
    \/ TimeoutIter
    \/ JobIter
    \/ JobReschedule
    \/ CbReturn

ReadyNext ==
    \/ \E o \in ReadyObjs : Register(o)
    \/ \E j \in Jobs : AddScheduledJob(j)
    \/ Tick
    \/ Loop
    \/ LoopReturn
    \/ LoopStep
    \/ ProcessFiredEvents
    \/ DispatchEvent
    \/ UpdateAssociatedEvents
    \/ TimeoutIter
    \/ JobIter
    \/ JobReschedule
    \/ CbReturn

ReadySpec == Init /\ [][ReadyNext]_vars /\ WF_vars(ReadyThread)

\* an entry of the list s has elapsed
AnyElapsed(s) == \E i \in 1..Len(s) : s[i][1] <= now

\* ---- C36: timers are not starved.  While loop() is running, once an entry
\* of fds_with_timeout has elapsed a timeout callback is invoked (or no
\* elapsed entry is left in the list, or loop() has returned), and once an
\* entry of time_events has elapsed a job callback is invoked (or loop() has
\* returned), whatever poll reports.
C36_TimersNotStarved ==
    /\ (pc # "idle" /\ AnyElapsed(fds_with_timeout)) ~>
          \/ pc = "cb" /\ cb = "timeout"
          \/ ~AnyElapsed(fds_with_timeout)
          \/ pc = "idle"
    /\ (pc # "idle" /\ AnyElapsed(time_events)) ~>
          \/ pc = "cb" /\ cb = "job"
          \/ pc = "idle"

=============================================================================
